---------------------------- MODULE Spec2Model ----------------------------
(***************************************************************************)
(* A model of the bdew-mako mirror of edi_energy_scraper: the API document *)
(* model with its filename encoding (apidocument.py), the decoding of a    *)
(* filename (documentmetadata.py), the format version range of a validity  *)
(* interval (utilities.py) and the mirror run with its download tasks and  *)
(* the removal of old files (scraper.py).                                  *)
(*                                                                         *)
(* Strings are sequences of one-character strings, so that the regular     *)
(* expressions, str.split, str.lower and strftime/strptime are computed    *)
(* character by character.  Dates are numbers YYYYMMDD, whose order is the *)
(* order of the dates.                                                     *)
(***************************************************************************)
EXTENDS Integers, Sequences, FiniteSets, TLC

VARIABLES
    doc,             \* codec: the Document under encoding
    file_name,       \* codec: result of doc.get_meaningful_file_name()
    metadata,        \* codec: result of DocumentMetadata.from_filename(file_name)
    cpc,             \* codec: "received" | "invalid" | "start" | "encoded" | "decoded"
    valid_from,      \* versions: argument of _get_valid_format_versions
    valid_to,        \* versions: argument of _get_valid_format_versions
    format_versions, \* versions: the list returned
    vpc,             \* versions: "start" | "returned"
    root,            \* mirror: what is at self._root_dir: "dir" | "file" | "missing"
    api,             \* mirror: the documents /api/documents answers with
    disk,            \* mirror: the files under the root, [dir, name]
    dirs,            \* mirror: the directories under the root
    mpc,             \* mirror: where mirror() is
    all_metadata,    \* mirror: all_metadata of mirror()
    download_tasks,  \* mirror: download_tasks of mirror(), each with its progress
    chunk,           \* mirror: the chunk of download_tasks under asyncio.gather
    evict,           \* mirror: _remove_old_files: "no" | "raised" | "ran"
    evicted,         \* mirror: the files _remove_old_files has unlinked
    exc,             \* mirror: the exception mirror() has ended with, or None
    disk0,           \* mirror: the files under the root when mirror() was called
    content,         \* mirror: what each file under the root holds, and the run
                     \*         that has written it (0: none of them)
    content0,        \* mirror: content when mirror() was called
    run,             \* mirror: the number of this call of mirror(), the number of
                     \*         calls there will be, and how the call before ended
    path_new_file,   \* compare: the file at the first path of _have_different_metadata
    path_to_old_file,    \* compare: the file at its second path
    metadata_has_changed, \* compare: what it returns, or the exception it raises
    hpc,             \* compare: "start" | "returned" | "raised"
    best_match,      \* get_best_match: the document its matcher returns, its
                     \*                 path argument, and what it has returned
    retry,           \* legacy: _download_and_save_pdf, its loops and its end
    removal,         \* legacy: remove_no_longer_online_files, the mirror
                     \*         directory, its argument and its end
    fv_range         \* legacy: get_edifact_format_version_range_from_filename,
                     \*         its path, the clock and its end

codec_vars == <<doc, file_name, metadata, cpc>>
version_vars == <<valid_from, valid_to, format_versions, vpc>>
mirror_vars == <<root, api, disk, dirs, mpc, all_metadata, download_tasks, chunk,
                 evict, evicted, exc, disk0, content, content0, run>>
compare_vars == <<path_new_file, path_to_old_file, metadata_has_changed, hpc>>
vars == <<doc, file_name, metadata, cpc, valid_from, valid_to, format_versions, vpc,
          root, api, disk, dirs, mpc, all_metadata, download_tasks, chunk,
          evict, evicted, exc, disk0, content, content0, run,
          path_new_file, path_to_old_file, metadata_has_changed, hpc, best_match,
          retry, removal, fv_range>>
match_vars == <<best_match>>
legacy_vars == <<retry, removal, fv_range>>

-----------------------------------------------------------------------------
(* Characters and strings *)

UpperSeq == <<"A","B","C","D","E","F","G","H","I","J","K","L","M",
              "N","O","P","Q","R","S","T","U","V","W","X","Y","Z">>
LowerSeq == <<"a","b","c","d","e","f","g","h","i","j","k","l","m",
              "n","o","p","q","r","s","t","u","v","w","x","y","z">>
DigitSeq == <<"0","1","2","3","4","5","6","7","8","9">>

Range(s) == {s[i] : i \in 1..Len(s)}
Last(s) == s[Len(s)]
Upper == Range(UpperSeq)
Lower == Range(LowerSeq)
Digit == Range(DigitSeq)
Whitespace == {" "}

\* the value Python's None is modelled by, where a date or a string is optional
None == <<"None">>
\* an absent optional date (dates are numbers)
NoDate == 0

Min(S) == CHOOSE x \in S : \A y \in S : x <= y
Max(S) == CHOOSE x \in S : \A y \in S : y <= x

\* str.lower() of one character
LowerChar(c) ==
    IF c \in Upper THEN LowerSeq[CHOOSE i \in 1..26 : UpperSeq[i] = c] ELSE c

\* str.lower()
ToLower(s) == [i \in 1..Len(s) |-> LowerChar(s[i])]

\* sub in s
Contains(s, sub) ==
    \E p \in 0..(Len(s) - Len(sub)) : \A k \in 1..Len(sub) : s[p + k] = sub[k]

\* s.startswith(pre), s.endswith(suf)
StartsWith(s, pre) == Len(pre) <= Len(s) /\ SubSeq(s, 1, Len(pre)) = pre
EndsWith(s, suf) ==
    Len(suf) <= Len(s) /\ SubSeq(s, Len(s) - Len(suf) + 1, Len(s)) = suf

\* s.split(c): the pieces between the occurrences of the character c
RECURSIVE Split(_, _)
Split(s, c) ==
    LET hits == {i \in 1..Len(s) : s[i] = c}
    IN  IF hits = {} THEN <<s>>
        ELSE LET i == Min(hits)
             IN  <<SubSeq(s, 1, i - 1)>> \o Split(SubSeq(s, i + 1, Len(s)), c)

\* c.join(parts)
RECURSIVE Join(_, _)
Join(parts, c) ==
    IF Len(parts) = 0 THEN <<>>
    ELSE IF Len(parts) = 1 THEN parts[1]
    ELSE parts[1] \o <<c>> \o Join(Tail(parts), c)

\* the characters of s that are in the set keep
Filter(s, keep) == SelectSeq(s, LAMBDA c : c \in keep)

DigitVal(c) == (CHOOSE i \in 1..10 : DigitSeq[i] = c) - 1

\* int(s) of a string of digits
RECURSIVE DigitsToInt(_)
DigitsToInt(s) ==
    IF Len(s) = 0 THEN 0
    ELSE 10 * DigitsToInt(SubSeq(s, 1, Len(s) - 1)) + DigitVal(s[Len(s)])

\* str(n) of a number n >= 0
RECURSIVE IntToStr(_)
IntToStr(n) ==
    IF n < 10 THEN <<DigitSeq[n + 1]>>
    ELSE IntToStr(n \div 10) \o <<DigitSeq[(n % 10) + 1]>>

\* n as w digits, zero padded (%Y, %m, %d of strftime)
RECURSIVE Padded(_, _)
Padded(n, w) ==
    IF w = 0 THEN <<>> ELSE Padded(n \div 10, w - 1) \o <<DigitSeq[(n % 10) + 1]>>

\* \w of a regular expression
IsWord(c) == c \in Upper \cup Lower \cup Digit \cup {"_"}
WordAt(s, i) == i \in 1..Len(s) /\ IsWord(s[i])
\* \b between s[p] and s[p+1], for p in 0..Len(s)
Boundary(s, p) == WordAt(s, p) # WordAt(s, p + 1)

\* the number of consecutive characters of the set cls in s after position p
RunLen(s, p, cls) ==
    IF p >= Len(s) THEN 0
    ELSE Max({n \in 0..(Len(s) - p) : \A k \in 1..n : s[p + k] \in cls})

\* s[p+1 .. p+Len(lit)] = lit
LitAt(s, p, lit) ==
    p + Len(lit) <= Len(s) /\ \A k \in 1..Len(lit) : s[p + k] = lit[k]


-----------------------------------------------------------------------------
(* apidocument.py: the patterns applied to a title *)

\* _MigPattern = .*\b[A-Z]{6}\sMIG\b.*
MigPattern(title) ==
    \E p \in 0..Len(title) :
        /\ p + 10 <= Len(title)
        /\ Boundary(title, p)
        /\ \A k \in 1..6 : title[p + k] \in Upper
        /\ title[p + 7] \in Whitespace
        /\ LitAt(title, p + 7, <<"M","I","G">>)
        /\ Boundary(title, p + 10)

\* _AhbPattern = .*\bAHB\b.*
AhbPattern(title) ==
    \E p \in 0..Len(title) :
        /\ Boundary(title, p)
        /\ LitAt(title, p, <<"A","H","B">>)
        /\ Boundary(title, p + 3)

\* the positions p after which \b[A-Z]{6}\b matches
FormatPositions(title) ==
    {p \in 0..Len(title) :
        /\ p + 6 <= Len(title)
        /\ Boundary(title, p)
        /\ \A k \in 1..6 : title[p + k] \in Upper
        /\ Boundary(title, p + 6)}

\* _FormatPattern = .*\b(?P<format>[A-Z]{6})\b.* : the group "format" of the
\* match, None without a match.  The leading .* is greedy, so the group is the
\* last such token of the title.
FormatPattern(title) ==
    IF FormatPositions(title) = {} THEN None
    ELSE LET p == Max(FormatPositions(title)) IN SubSeq(title, p + 1, p + 6)

\* where [GS]?\d+\.\d+[a-z]? followed by \b ends when it starts after position
\* p with a \b before it; 0 when it does not match there
VersionEndAt(s, p) ==
    LET g  == IF p + 1 <= Len(s) /\ s[p + 1] \in {"G", "S"} THEN 1 ELSE 0
        d1 == RunLen(s, p + g, Digit)
        q  == p + g + d1
        d2 == RunLen(s, q + 1, Digit)
        r  == q + 1 + d2
        l  == IF r + 1 <= Len(s) /\ s[r + 1] \in Lower THEN 1 ELSE 0
    IN  IF /\ Boundary(s, p)
           /\ d1 >= 1
           /\ LitAt(s, q, <<".">>)
           /\ d2 >= 1
           /\ Boundary(s, r + l)
        THEN r + l ELSE 0

\* _VersionPattern = ^.*?\b(?P<version>[GS]?\d+\.\d+[a-z]?)\b.*$ : the group
\* "version" of the match (the first one, .*? is lazy), None without a match
VersionPattern(title) ==
    LET starts == {p \in 0..Len(title) : VersionEndAt(title, p) # 0}
    IN  IF starts = {} THEN None
        ELSE LET p == Min(starts) IN SubSeq(title, p + 1, VersionEndAt(title, p))

\* _AlternativeKindPattern = ^(?P<name>\D+).*$ : the group "name", None
\* without a match (a title that is empty or starts with a digit)
AlternativeKindPattern(title) ==
    LET n == RunLen(title, 0, Range(title) \ Digit)
    IN  IF n = 0 THEN None ELSE SubSeq(title, 1, n)

\* (\d{1,2})\. after position p: the number of digits of the group, 0 without
\* a match
DayOrMonthLen(s, p) ==
    IF RunLen(s, p, Digit) >= 2 /\ LitAt(s, p + 2, <<".">>) THEN 2
    ELSE IF RunLen(s, p, Digit) >= 1 /\ LitAt(s, p + 1, <<".">>) THEN 1
    ELSE 0

\* the groups year, month, day with the day of dd digits after position a and
\* the month of mm digits after position b
StandYear(s, p, a, dd, b, mm) ==
    IF /\ LitAt(s, p, <<"S","t","a","n","d",":">>)
       /\ dd # 0
       /\ mm # 0
       /\ RunLen(s, b + mm + 1, Digit) >= 4
    THEN << DigitsToInt(SubSeq(s, b + mm + 2, b + mm + 5)),
            DigitsToInt(SubSeq(s, b + 1, b + mm)),
            DigitsToInt(SubSeq(s, a + 1, a + dd)) >>
    ELSE <<>>

StandMonth(s, p, a, dd) == StandYear(s, p, a, dd, a + dd + 1, DayOrMonthLen(s, a + dd + 1))

StandDay(s, p, a) == StandMonth(s, p, a, DayOrMonthLen(s, a))

\* the date Stand:\s*(\d{1,2})\.(\d{1,2})\.(\d{4}) gives when it matches after
\* position p, as <<year, month, day>>; <<>> when it does not match there
StandAt(s, p) == StandDay(s, p, p + 6 + RunLen(s, p + 6, Whitespace))

\* _StandPattern = .*Stand:\s*(?P<day>\d{1,2})\.(?P<month>\d{1,2})\.(?P<year>\d{4}).*
\* the groups of the match (the last one, .* is greedy), <<>> without a match
StandPattern(title) ==
    LET starts == {p \in 0..Len(title) : StandAt(title, p) # <<>>}
    IN  IF starts = {} THEN <<>> ELSE StandAt(title, Max(starts))

-----------------------------------------------------------------------------
(* apidocument.py: class Document *)

\* the exceptions the modelled functions raise, as results
NotImplementedError == <<"NotImplementedError">>
ValueError == <<"ValueError">>
IndexError == <<"IndexError">>
ValidationError == <<"ValidationError">>
Errors == {NotImplementedError, ValueError, IndexError, ValidationError}

\* the values of efoli.EdifactFormat
EdifactFormat ==
    { <<"A","P","E","R","A","K">>, <<"C","O","M","D","I","S">>,
      <<"C","O","N","T","R","L">>, <<"I","F","T","S","T","A">>,
      <<"I","N","S","R","P","T">>, <<"I","N","V","O","I","C">>,
      <<"M","S","C","O","N","S">>, <<"O","R","D","C","H","G">>,
      <<"O","R","D","E","R","S">>, <<"O","R","D","R","S","P">>,
      <<"P","R","I","C","A","T">>, <<"Q","U","O","T","E","S">>,
      <<"R","E","M","A","D","V">>, <<"R","E","Q","O","T","E">>,
      <<"P","A","R","T","I","N">>, <<"U","T","I","L","M","D">>,
      <<"U","T","I","L","M","D","G">>, <<"U","T","I","L","M","D","S">>,
      <<"U","T","I","L","M","D","W">>, <<"U","T","I","L","T","S">> }

\* date(9999, 12, 31)
MaxDate == 99991231
\* the result of date(year, month, day) raising a ValueError
InvalidDate == -1

\* Document.gueltig_bis
gueltig_bis(d) == IF d.validTo # NoDate THEN d.validTo ELSE MaxDate

\* Document.gueltig_ab
gueltig_ab(d) == d.validFrom

\* Document.file_extension
file_extension(d) ==
    CASE d.fileType = "application/pdf" -> <<"p","d","f">>
      [] d.fileType = "application/vnd.openxmlformats-officedocument.wordprocessingml.document"
            -> <<"d","o","c","x">>
      [] d.fileType = "XSD" -> <<"x","s","d">>
      [] d.fileType = "application/vnd.openxmlformats-officedocument.spreadsheetml.sheet"
            -> <<"x","l","s","x">>
      [] d.fileType = "text/xml" -> <<"x","m","l">>
      [] OTHER -> NotImplementedError

\* Document.file_kind
file_kind(d) ==
    IF MigPattern(d.title) THEN <<"M","I","G">>
    ELSE IF AhbPattern(d.title) THEN <<"A","H","B">>
    ELSE IF Contains(ToLower(d.title),
                     <<"e","n","t","s","c","h","e","i","d","u","n","g","s","b","a","u","m">>)
         THEN <<"E","B","D">>
    ELSE IF file_extension(d) \in Errors THEN file_extension(d)
    ELSE IF file_extension(d) = <<"x","s","d">> THEN <<"X","S","D">>
    ELSE IF file_extension(d) = <<"x","l","s","x">> THEN <<"E","X","C","E","L">>
    ELSE None

\* an alternative_file_kind without the re.sub of line 137: lower case, blanks
\* removed
AlternativeFileKindUnfiltered(d) ==
    LET name   == AlternativeKindPattern(d.title)
        result == IF name = None THEN d.title ELSE name
    IN  ToLower(Filter(result, Range(result) \ {" "}))

\* Document.alternative_file_kind
alternative_file_kind(d) ==
    LET name   == AlternativeKindPattern(d.title)
        result == IF name = None THEN d.title ELSE name
    IN  Filter(ToLower(Filter(result, Range(result) \ {" "})), Upper \cup Lower)

\* Document.edifact_format: EdifactFormat(match.group("format")) raises a
\* ValueError for a token that is no member of the enumeration
edifact_format(d) ==
    LET token == FormatPattern(d.title)
    IN  IF token = None THEN None
        ELSE IF token \in EdifactFormat THEN token
        ELSE ValueError

\* Document.document_version
document_version(d) == VersionPattern(d.title)

\* Document.is_consolidated_reading_version
is_consolidated_reading_version(d) ==
    IF d.isConsolidatedReadingVersion THEN TRUE
    ELSE Contains(ToLower(d.title),
                  <<"k","o","n","s","o","l","i","d","i","e","r","t","e">>)

\* Document.is_error_correction
is_error_correction(d) ==
    IF d.isErrorCorrection THEN TRUE
    ELSE Contains(ToLower(d.title), <<"f","e","h","l","e","r">>)

\* Document.is_extraordinary_publication
is_extraordinary_publication(d) ==
    IF d.isExtraordinaryPublication THEN TRUE
    ELSE \/ Contains(ToLower(d.title),
                     <<"a","u","s","s","e","r","o","r","d","e","n","l","i","c","h">>)
         \/ Contains(ToLower(d.title),
                     <<"a","u","ß","e","r","o","r","d","e","n","t","l","i","c","h">>)

\* Document.is_informational_reading_version
is_informational_reading_version(d) ==
    IF d.isInformationalReadingVersion THEN TRUE
    ELSE Contains(ToLower(d.title),
                  <<"i","n","f","o","r","m","a","t","o","r","i","s","c","h","e">>)

\* the days of a month, for date(year, month, day)
DaysInMonth(y, m) ==
    IF m \in {4, 6, 9, 11} THEN 30
    ELSE IF m = 2
         THEN (IF y % 4 = 0 /\ (y % 100 # 0 \/ y % 400 = 0) THEN 29 ELSE 28)
    ELSE 31

\* date(year, month, day) exists
IsDate(y, m, d) == y \in 1..9999 /\ m \in 1..12 /\ d \in 1..DaysInMonth(y, m)

\* date(year, month, day) of the groups m of _StandPattern: NoDate without a
\* match, InvalidDate when date(...) raises
StandDate(m) ==
    IF m = <<>> THEN NoDate
    ELSE IF IsDate(m[1], m[2], m[3]) THEN m[1] * 10000 + m[2] * 100 + m[3]
    ELSE InvalidDate

\* Document.publication_date: NoDate for None, ValueError when the title's
\* "Stand:" is no date
publication_date(d) ==
    IF d.publicationDate # NoDate THEN d.publicationDate ELSE StandDate(StandPattern(d.title))

\* date.strftime("%Y%m%d")
strftime(date) ==
    Padded(date \div 10000, 4) \o Padded((date \div 100) % 100, 2) \o Padded(date % 100, 2)

\* the flags part of the filename
flags(d) ==
    LET f == << is_error_correction(d), is_extraordinary_publication(d),
                is_consolidated_reading_version(d), is_informational_reading_version(d) >>
    IN  [i \in 1..4 |-> IF f[i] = TRUE THEN "x" ELSE "o"]

\* a placeholder "edifact_format" without the separator behind the format
EdifactFormatBare(format) ==
    IF format # None THEN format ELSE <<>>

\* the placeholder "edifact_format": self.edifact_format + "_" if
\* self.edifact_format else ""
EdifactFormatPlaceholder(format) ==
    IF format # None THEN format \o <<"_">> ELSE <<>>

\* the filename of get_meaningful_file_name with id as its "id" placeholder, or
\* the exception raised
FormatFileName(d, id) ==
    IF publication_date(d) = InvalidDate THEN ValueError
    ELSE IF file_extension(d) \in Errors THEN file_extension(d)
    ELSE IF file_kind(d) \in Errors THEN file_kind(d)
    ELSE IF edifact_format(d) \in Errors THEN edifact_format(d)
    ELSE
    LET pub       == IF publication_date(d) # NoDate THEN publication_date(d)
                     ELSE gueltig_ab(d)
        kind      == IF file_kind(d) # None THEN file_kind(d)
                     ELSE alternative_file_kind(d)
        format    == EdifactFormatPlaceholder(edifact_format(d))
        version   == IF document_version(d) # None THEN document_version(d)
                     ELSE <<"N","V">>
    IN  kind \o <<"_">> \o format \o version
            \o <<"_">> \o strftime(gueltig_ab(d))
            \o <<"_">> \o strftime(gueltig_bis(d))
            \o <<"_">> \o strftime(pub)
            \o <<"_">> \o flags(d)
            \o <<"_">> \o id
            \o <<".">> \o file_extension(d)

\* a filename whose "id" is str(self.userId), which the API leaves 0
FileNameWithUserId(d) == FormatFileName(d, IntToStr(0))

\* Document.get_meaningful_file_name: "id" is str(self.fileId)
get_meaningful_file_name(d) == FormatFileName(d, IntToStr(d.fileId))

-----------------------------------------------------------------------------
(* documentmetadata.py: class DocumentMetadata *)

\* the pattern ^\d+\.\d+[a-z]?$ of DocumentMetadata.version, on the value with
\* its surrounding whitespace stripped
VersionConstraint(v) ==
    LET lead == RunLen(v, 0, Whitespace)
        s  == SubSeq(v, lead + 1, Len(v) - RunLen([i \in 1..Len(v) |-> v[Len(v) + 1 - i]],
                                                  0, Whitespace))
        d1 == RunLen(s, 0, Digit)
        d2 == RunLen(s, d1 + 1, Digit)
        r  == d1 + 1 + d2
        l  == IF r + 1 <= Len(s) /\ s[r + 1] \in Lower THEN 1 ELSE 0
    IN  d1 >= 1 /\ LitAt(s, d1, <<".">>) /\ d2 >= 1 /\ r + l = Len(s)

\* int(s) succeeds: digits only
IsIntStr(s) == Len(s) >= 1 /\ \A i \in 1..Len(s) : s[i] \in Digit

\* datetime.strptime(s, "%Y%m%d") succeeds
IsDateStr(s) ==
    /\ Len(s) = 8
    /\ \A i \in 1..8 : s[i] \in Digit
    /\ IsDate(DigitsToInt(SubSeq(s, 1, 4)), DigitsToInt(SubSeq(s, 5, 6)),
              DigitsToInt(SubSeq(s, 7, 8)))

\* datetime.strptime(s, "%Y%m%d"), as the date the model field keeps of it
strptime(s) ==
    DigitsToInt(SubSeq(s, 1, 4)) * 10000 + DigitsToInt(SubSeq(s, 5, 6)) * 100
        + DigitsToInt(SubSeq(s, 7, 8))

\* the result of from_filename when it raises e
Raised(e) ==
    [ error |-> e, id |-> 0, valid_from |-> NoDate, valid_until |-> NoDate,
      publication_date |-> NoDate, version |-> None, kind |-> None,
      edifact_format |-> None, additional_text |-> None,
      is_error_correction |-> FALSE, is_extraordinary_publication |-> FALSE,
      is_consolidated_reading_version |-> FALSE,
      is_informational_reading_version |-> FALSE ]

\* DocumentMetadata.from_filename: the metadata (error = None), or the
\* exception raised (error)
from_filename(filename) ==
    LET dotted == Split(filename, ".")
        filename_mod == Join(SubSeq(dotted, 1, Len(dotted) - 1), ".")
        filename_parts == Split(filename_mod, "_")
        n == Len(filename_parts)
        part(k) == filename_parts[n + 1 - k]    \* filename_parts[-k]
        mig_or_ahb == \/ StartsWith(filename, <<"M","I","G","_">>)
                      \/ StartsWith(filename, <<"A","H","B","_">>)
    IN  IF ~IsIntStr(part(1)) THEN Raised(ValueError)
        ELSE IF n < 2 THEN Raised(IndexError)
        ELSE IF Len(part(2)) # 4 THEN Raised(ValueError)
        ELSE IF n < 5 THEN Raised(IndexError)
        ELSE IF \E k \in 3..5 : ~IsDateStr(part(k)) THEN Raised(ValueError)
        ELSE IF n < 6 THEN Raised(IndexError)
        ELSE IF mig_or_ahb /\ n < 7 THEN Raised(IndexError)
        ELSE IF part(6) # <<"N","V">> /\ ~VersionConstraint(part(6))
             THEN Raised(ValidationError)
        ELSE
        [ error |-> None,
          id |-> DigitsToInt(part(1)),
          is_error_correction |-> LowerChar(part(2)[1]) = "x",
          is_extraordinary_publication |-> LowerChar(part(2)[2]) = "x",
          is_consolidated_reading_version |-> LowerChar(part(2)[3]) = "x",
          is_informational_reading_version |-> LowerChar(part(2)[4]) = "x",
          valid_from |-> strptime(part(5)),
          valid_until |-> strptime(part(4)),
          publication_date |-> strptime(part(3)),
          version |-> IF part(6) = <<"N","V">> THEN None ELSE part(6),
          edifact_format |-> IF mig_or_ahb /\ part(7) \in EdifactFormat
                             THEN part(7) ELSE None,
          kind |-> IF mig_or_ahb THEN Split(filename, "_")[1]
                   ELSE IF StartsWith(filename, <<"E","B","D","_">>) THEN <<"E","B","D">>
                   ELSE IF EndsWith(filename, <<"x","s","d">>) THEN <<"X","S","D">>
                   ELSE IF EndsWith(filename, <<"x","l","s","x">>) THEN <<"E","X","C","E","L">>
                   ELSE None,
          additional_text |-> IF \/ mig_or_ahb
                                 \/ StartsWith(filename, <<"E","B","D","_">>)
                                 \/ EndsWith(filename, <<"x","s","d">>)
                                 \/ EndsWith(filename, <<"x","l","s","x">>)
                              THEN None ELSE filename_parts[1] ]

-----------------------------------------------------------------------------
(* efoli: the format versions and the date each one starts at *)

\* the members of efoli.EdifactFormatVersion in their order, FVyymm as yymm:
\* the members are compared as strings, which orders them as these numbers
EdifactFormatVersion == <<2104, 2110, 2210, 2304, 2310, 2404, 2410, 2504, 2510>>

\* the first day (German local time) of each format version but the first
FormatVersionThresholds ==
    <<20211001, 20221001, 20230401, 20231001, 20240403, 20241001, 20250606, 20251001>>

\* efoli.get_edifact_format_version: the version of the first threshold the
\* date lies before, the last version when it lies before none
get_edifact_format_version(date) ==
    LET before == {i \in 1..Len(FormatVersionThresholds) :
                       date < FormatVersionThresholds[i]}
    IN  IF before = {} THEN EdifactFormatVersion[Len(EdifactFormatVersion)]
        ELSE EdifactFormatVersion[Min(before)]

-----------------------------------------------------------------------------
(* utilities.py *)

\* the versions of the enumeration from from_fv to to_fv, in its order
VersionsBetween(from_fv, to_fv) ==
    SelectSeq(EdifactFormatVersion, LAMBDA fv : from_fv <= fv /\ fv <= to_fv)

\* _get_valid_format_versions without its branch for valid_to <= valid_from
GetValidFormatVersionsNoDefectBranch(from, to) ==
    VersionsBetween(get_edifact_format_version(from),
                    IF to = NoDate THEN Max(Range(EdifactFormatVersion))
                    ELSE get_edifact_format_version(to))

\* _get_valid_format_versions taking the version of valid_from for no valid_to
GetValidFormatVersionsNoneAsFrom(from, to) ==
    VersionsBetween(get_edifact_format_version(from),
                    IF to = NoDate \/ to <= from THEN get_edifact_format_version(from)
                    ELSE get_edifact_format_version(to))

\* _get_valid_format_versions ending, for no valid_to, one version before the
\* maximum
GetValidFormatVersionsBelowMaximum(from, to) ==
    LET valid_from_fv == get_edifact_format_version(from)
        last == Len(EdifactFormatVersion)
        valid_to_fv ==
            IF to = NoDate
            THEN Max({valid_from_fv, EdifactFormatVersion[last - 1]})
            ELSE IF to <= from THEN get_edifact_format_version(from)
            ELSE get_edifact_format_version(to)
    IN  VersionsBetween(valid_from_fv, valid_to_fv)

\* _get_valid_format_versions
get_valid_format_versions(from, to) ==
    LET valid_from_fv == get_edifact_format_version(from)
        valid_to_fv ==
            IF to = NoDate THEN Max(Range(EdifactFormatVersion))
            ELSE IF to <= from THEN get_edifact_format_version(from)
            ELSE get_edifact_format_version(to)
    IN  VersionsBetween(valid_from_fv, valid_to_fv)

\* What a file holds: whether pypdf reads it as a PDF, whether the PDF is
\* encrypted, its document information, and the rest of its bytes.  Two files
\* are byte for byte the same when the records are equal.
PdfFile(m, b) == [is_pdf |-> TRUE, is_encrypted |-> FALSE, metadata |-> m, body |-> b]
EncryptedPdfFile(b) == [is_pdf |-> TRUE, is_encrypted |-> TRUE, metadata |-> 0, body |-> b]
OtherFile(b) == [is_pdf |-> FALSE, is_encrypted |-> FALSE, metadata |-> 0, body |-> b]

\* pypdf.errors.PdfReadError, which PdfReader raises for what is no PDF
PdfReadError == <<"PdfReadError">>

\* PdfReader(path) raises
PdfReaderRaises(file) == ~file.is_pdf

\* _have_different_metadata raises, its arguments being what the files at the
\* two paths hold: lines 16 and 22, the second file is read only when the
\* first is no encrypted PDF
HaveDifferentMetadataRaises(path_new, path_to_old) ==
    \/ PdfReaderRaises(path_new)
    \/ ~path_new.is_encrypted /\ PdfReaderRaises(path_to_old)

\* a comparison of the bytes of the two files
HaveDifferentBytes(path_new, path_to_old) == path_new # path_to_old

\* what _have_different_metadata returns when it does not raise
have_different_metadata(path_new, path_to_old) ==
    IF path_new.is_encrypted THEN TRUE
    ELSE IF path_to_old.is_encrypted THEN TRUE
    ELSE path_new.metadata # path_to_old.metadata

-----------------------------------------------------------------------------
(* The documents the catalog is drawn from *)

\* fileIds are the numbers 9 .. 8 + MaxFileId: of one digit and of two
MaxFileId == 2
FileIds == {8 + k : k \in 1..MaxFileId}

Titles ==
    { <<"I","F","T","S","T","A"," ","M","I","G"," ","2",".","0","e">>,
      <<"U","T","I","L","M","D"," ","A","H","B"," ","S","t","r","o","m"," ","S","2",".","1">>,
      <<"E","n","t","s","c","h","e","i","d","u","n","g","s","b","a","u","m","-",
        "D","i","a","g","r","a","m","m","e"," ","3",".","5">>,
      <<"A","P","E","R","A","K"," ","A","H","B"," ","1",".","0","a"," ",
        "k","o","n","s","o","l","i","d","i","e","r","t","e"," ",
        "L","e","s","e","f","a","s","s","u","n","g"," ",
        "S","t","a","n","d",":"," ","0","3",".","0","3",".","2","0","1","5">>,
      <<"C","o","d","e","l","i","s","t","e"," ","d","e","r"," ",
        "K","o","n","f","i","g","u","r","a","t","i","o","n","e","n">>,
      <<"E","B","D"," ","F","e","h","l","e","r","k","o","r","r","e","k","t","u","r"," ","1",".","1">> }

FileTypes ==
    { "application/pdf",
      "application/vnd.openxmlformats-officedocument.wordprocessingml.document",
      "application/vnd.openxmlformats-officedocument.spreadsheetml.sheet",
      "application/zip" }

\* the catalog's flags: none set, or one of the four
CatalogFlags ==
    { f \in [1..4 -> BOOLEAN] : Cardinality({i \in 1..4 : f[i]}) <= 1 }

Document(id, title, free, pub, from, to, f, type) ==
    [ fileId |-> id, title |-> title, isFree |-> free, publicationDate |-> pub,
      validFrom |-> from, validTo |-> to,
      isErrorCorrection |-> f[1], isExtraordinaryPublication |-> f[2],
      isConsolidatedReadingVersion |-> f[3], isInformationalReadingVersion |-> f[4],
      fileType |-> type ]

\* the IFTSTA MIG 2.0e of fileId 42, a PDF valid from 2023-10-01 to 2024-09-30
\* with no flag set, with and without a publication date
Iftsta42Documents ==
    { Document(42, <<"I","F","T","S","T","A"," ","M","I","G"," ","2",".","0","e">>,
               TRUE, pub, 20231001, 20240930, [i \in 1..4 |-> FALSE],
               "application/pdf") : pub \in {NoDate, 20230815} }

\* the downloadable documents the codec is run on
CodecDocuments ==
    { Document(id, title, TRUE, pub, from, to, f, type) :
        id \in FileIds, title \in Titles, pub \in {NoDate, 20230815},
        from \in {20231001, 20240311}, to \in {NoDate, 20240930},
        f \in CatalogFlags, type \in FileTypes }
      \cup Iftsta42Documents

-----------------------------------------------------------------------------
(* The codec: a document is encoded, the filename decoded *)

IdleCodec ==
    /\ doc = None /\ file_name = None /\ metadata = None /\ cpc = "idle"
IdleVersions ==
    /\ valid_from = NoDate /\ valid_to = NoDate /\ format_versions = <<>>
    /\ vpc = "idle"
IdleCompare ==
    /\ path_new_file = None /\ path_to_old_file = None
    /\ metadata_has_changed = None /\ hpc = "idle"
IdleMatch == best_match = None
IdleLegacy == retry = None /\ removal = None /\ fv_range = None
IdleMirror ==
    /\ root = "dir" /\ api = <<>> /\ disk = {} /\ dirs = {} /\ mpc = "unused"
    /\ all_metadata = <<>> /\ download_tasks = <<>> /\ chunk = 0
    /\ evict = "no" /\ evicted = {} /\ exc = None /\ disk0 = {}
    /\ content = <<>> /\ content0 = <<>> /\ run = <<>>

CodecInit ==
    /\ doc \in CodecDocuments
    /\ file_name = None
    /\ metadata = None
    /\ cpc = "start"
    /\ IdleVersions
    /\ IdleMirror
    /\ IdleCompare
    /\ IdleMatch
    /\ IdleLegacy

\* file_name = doc.get_meaningful_file_name()
Encode ==
    /\ cpc = "start"
    /\ file_name' = get_meaningful_file_name(doc)
    /\ cpc' = "encoded"
    /\ UNCHANGED <<doc, metadata>>
    /\ UNCHANGED <<version_vars, mirror_vars, compare_vars, match_vars, legacy_vars>>

\* metadata = DocumentMetadata.from_filename(file_name)
Decode ==
    /\ cpc = "encoded"
    /\ file_name \notin Errors
    /\ metadata' = from_filename(file_name)
    /\ cpc' = "decoded"
    /\ UNCHANGED <<doc, file_name>>
    /\ UNCHANGED <<version_vars, mirror_vars, compare_vars, match_vars, legacy_vars>>

CodecNext == Encode \/ Decode

SpecCodec == CodecInit /\ [][CodecNext]_vars

\* the filenames of the documents, with their fileIds
NameTable == {<<d.fileId, get_meaningful_file_name(d)>> : d \in CodecDocuments}

\* the date the filename encodes as the publication date
EncodedPublicationDate(d) ==
    IF publication_date(d) # NoDate THEN publication_date(d) ELSE d.validFrom

\* C1: decoding the filename of a downloadable document succeeds and gives back
\* the fileId, valid_from, valid_until (9999-12-31 for no validTo), the encoded
\* publication date and the four derived flags.
C1_RoundTrip ==
    cpc = "decoded" =>
        /\ metadata.error = None
        /\ metadata.id = doc.fileId
        /\ metadata.valid_from = doc.validFrom
        /\ metadata.valid_until = gueltig_bis(doc)
        /\ metadata.publication_date = EncodedPublicationDate(doc)
        /\ metadata.is_error_correction = is_error_correction(doc)
        /\ metadata.is_extraordinary_publication = is_extraordinary_publication(doc)
        /\ metadata.is_consolidated_reading_version = is_consolidated_reading_version(doc)
        /\ metadata.is_informational_reading_version = is_informational_reading_version(doc)

\* C2: two documents with different fileIds have different filenames, whatever
\* their titles, dates, flags and file types are.
C2_UniqueFileName ==
    (cpc = "encoded" /\ file_name \notin Errors) =>
        \A e \in NameTable : e[1] # doc.fileId => e[2] # file_name

\* C2's case: an encoded document, and a document that differs from it in the
\* fileId alone
C2_Witness ==
    /\ cpc = "encoded"
    /\ file_name \notin Errors
    /\ \E id \in FileIds \ {doc.fileId} :
          /\ [doc EXCEPT !.fileId = id] \in CodecDocuments
          /\ <<id, get_meaningful_file_name([doc EXCEPT !.fileId = id])>> \in NameTable

-----------------------------------------------------------------------------
(* The records of a catalog: a record of the response of /api/documents is   *)
(* validated as a Document, the Document encoded, the filename decoded       *)

\* a record without a fileId ("fileId": null)
NoFileId == 0
\* the fileType of a record without one ("fileType": null)
NoFileType == "null"

\* the words the titles are made of: format codes, a word of six upper-case
\* letters that is no format code, kinds, versions with and without a prefix,
\* the keywords of the flags in their spellings, and words with a separator
Vocabulary ==
    << <<"I","F","T","S","T","A">>,
       <<"U","T","I","L","M","D">>,
       <<"A","N","H","A","N","G">>,
       <<"M","I","G">>,
       <<"A","H","B">>,
       <<"2",".","0","e">>,
       <<"S","2",".","1">>,
       <<"G","1",".","0","a">>,
       <<"F","e","h","l","e","r","k","o","r","r","e","k","t","u","r">>,
       <<"a","u","ß","e","r","o","r","d","e","n","t","l","i","c","h","e">>,
       <<"a","u","s","s","e","r","o","r","d","e","n","t","l","i","c","h","e">>,
       <<"A","u","s","s","e","r","o","r","d","e","n","l","i","c","h","e">>,
       <<"k","o","n","s","o","l","i","d","i","e","r","t","e">>,
       <<"i","n","f","o","r","m","a","t","o","r","i","s","c","h","e">>,
       <<"L","e","s","e","f","a","s","s","u","n","g">>,
       <<"S","t","r","o","m","/","G","a","s">>,
       <<"E","B","D","_","L","i","s","t","e">> >>

\* the number of words of a title
MaxWords == 2

\* the titles of at most MaxWords words of the vocabulary, joined by blanks
WordLists == UNION {[1..k -> 1..Len(Vocabulary)] : k \in 0..MaxWords}
TitleOf(ws) == Join([i \in 1..Len(ws) |-> Vocabulary[ws[i]]], " ")
GeneratedTitles == {TitleOf(ws) : ws \in WordLists}

\* the downloadable records: a PDF of fileId 9, valid from 2023-10-01, with
\* each title and each setting of the catalog's flags
TitledRecords ==
    { Document(9, title, TRUE, NoDate, 20231001, NoDate, f, "application/pdf") :
        title \in GeneratedTitles, f \in CatalogFlags }

\* the records of external links: no fileId and no fileType (the link itself
\* is no field of Document and is ignored by its validation)
ExternalLinkRecords ==
    { Document(NoFileId, TitleOf(ws), free, NoDate, 20231001, NoDate,
               [i \in 1..4 |-> FALSE], NoFileType) :
        ws \in {<<>>, <<15>>, <<1, 4>>, <<2, 5>>}, free \in BOOLEAN }

\* ResponseModel.model_validate raises a ValidationError: Document declares
\* fileId: int and fileType: str, neither of them Optional
ModelValidateRaises(record) ==
    record.fileId = NoFileId \/ record.fileType = NoFileType

RecordsInit ==
    /\ doc \in TitledRecords \cup ExternalLinkRecords
    /\ file_name = None
    /\ metadata = None
    /\ cpc = "received"
    /\ IdleVersions
    /\ IdleMirror
    /\ IdleCompare
    /\ IdleMatch
    /\ IdleLegacy

\* ResponseModel.model_validate(response_body) for the record
ModelValidate ==
    /\ cpc = "received"
    /\ cpc' = IF ModelValidateRaises(doc) THEN "invalid" ELSE "start"
    /\ UNCHANGED <<doc, file_name, metadata>>
    /\ UNCHANGED <<version_vars, mirror_vars, compare_vars, match_vars, legacy_vars>>

RecordsNext == ModelValidate \/ Encode \/ Decode

SpecRecords == RecordsInit /\ [][RecordsNext]_vars

-----------------------------------------------------------------------------
(* The format versions of a validity interval *)

\* the dates around the starts of the format versions
VersionDates ==
    { 20210929, 20210930, 20211001, 20230401, 20230930, 20231001, 20231030,
      20240401, 20240402, 20240403, 20250605, 20250606, 20251001, 20260101 }

VersionsInit ==
    /\ valid_from \in VersionDates
    /\ valid_to \in VersionDates \cup {NoDate}
    /\ format_versions = <<>>
    /\ vpc = "start"
    /\ IdleCodec
    /\ IdleMirror
    /\ IdleCompare
    /\ IdleMatch
    /\ IdleLegacy

\* format_versions = _get_valid_format_versions(valid_from, valid_to)
GetValidFormatVersions ==
    /\ vpc = "start"
    /\ format_versions' = get_valid_format_versions(valid_from, valid_to)
    /\ vpc' = "returned"
    /\ UNCHANGED <<valid_from, valid_to>>
    /\ UNCHANGED <<codec_vars, mirror_vars, compare_vars, match_vars, legacy_vars>>

VersionsNext == GetValidFormatVersions

SpecVersions == VersionsInit /\ [][VersionsNext]_vars

\* the place of a format version in the enumeration
IndexOf(fv) == CHOOSE i \in 1..Len(EdifactFormatVersion) : EdifactFormatVersion[i] = fv

\* a list of format versions that is strictly ascending and has no gaps in the
\* order of the enumeration
Contiguous(fvs) ==
    \A i \in 1..(Len(fvs) - 1) :
        /\ fvs[i] < fvs[i + 1]
        /\ IndexOf(fvs[i + 1]) = IndexOf(fvs[i]) + 1

\* C3: the list returned is not empty, strictly ascending and contiguous and
\* starts at the version of valid_from; for a valid_to <= valid_from it is the
\* version of valid_from alone.
C3_NonEmptyContiguous ==
    vpc = "returned" =>
        /\ Len(format_versions) >= 1
        /\ Contiguous(format_versions)
        /\ format_versions[1] = get_edifact_format_version(valid_from)
        /\ (valid_to # NoDate /\ valid_to <= valid_from)
              => format_versions = <<get_edifact_format_version(valid_from)>>

\* C3's case: a valid_to in an earlier format version than valid_from
C3_Witness ==
    /\ vpc = "returned"
    /\ valid_to # NoDate
    /\ valid_to < valid_from
    /\ get_edifact_format_version(valid_to) < get_edifact_format_version(valid_from)
    /\ Len(format_versions) = 1

\* C5: without a valid_to the list holds every defined format version from the
\* one of valid_from on, the maximum included.
C5_OpenEndedUpToMaximum ==
    (vpc = "returned" /\ valid_to = NoDate) =>
        /\ Range(format_versions) =
              {fv \in Range(EdifactFormatVersion) :
                  fv >= get_edifact_format_version(valid_from)}
        /\ format_versions[Len(format_versions)] =
              EdifactFormatVersion[Len(EdifactFormatVersion)]

\* C5's case: no valid_to, and a valid_from before the last format version
C5_Witness ==
    /\ vpc = "returned"
    /\ valid_to = NoDate
    /\ get_edifact_format_version(valid_from) = 2310
    /\ Len(format_versions) > 1

\* C6: valid_to is exclusive: with valid_from in a format version A and
\* valid_to the first day of the following version B, the list holds A and
\* not B.
C6_ExclusiveValidTo ==
    \A i \in 1..Len(FormatVersionThresholds) :
        ( /\ vpc = "returned"
          /\ valid_to = FormatVersionThresholds[i]
          /\ get_edifact_format_version(valid_from) = EdifactFormatVersion[i] )
        => /\ EdifactFormatVersion[i] \in Range(format_versions)
           /\ EdifactFormatVersion[i + 1] \notin Range(format_versions)

-----------------------------------------------------------------------------
(* The comparison of two files *)

MaxMetadata == 3
MaxBody == 2

\* the files compared: PDFs of each document information and body, encrypted
\* PDFs, and files that are no PDF
ComparedFiles ==
    { PdfFile(m, b) : m \in 1..MaxMetadata, b \in 1..MaxBody }
        \cup { EncryptedPdfFile(b) : b \in 1..MaxBody }
        \cup { OtherFile(b) : b \in 1..MaxBody }

CompareInit ==
    /\ path_new_file \in ComparedFiles
    /\ path_to_old_file \in ComparedFiles
    /\ metadata_has_changed = None
    /\ hpc = "start"
    /\ IdleCodec
    /\ IdleVersions
    /\ IdleMirror
    /\ IdleMatch
    /\ IdleLegacy

\* _have_different_metadata(path_new_file, path_to_old_file)
Compare ==
    /\ hpc = "start"
    /\ IF HaveDifferentMetadataRaises(path_new_file, path_to_old_file)
       THEN /\ hpc' = "raised"
            /\ metadata_has_changed' = PdfReadError
       ELSE /\ hpc' = "returned"
            /\ metadata_has_changed' =
                  have_different_metadata(path_new_file, path_to_old_file)
    /\ UNCHANGED <<path_new_file, path_to_old_file>>
    /\ UNCHANGED <<codec_vars, version_vars, mirror_vars, match_vars, legacy_vars>>

CompareNext == Compare

SpecCompare == CompareInit /\ [][CompareNext]_vars

\* a PDF that is not encrypted
Readable(file) == file.is_pdf /\ ~file.is_encrypted

-----------------------------------------------------------------------------
(* scraper.py: the files under the root *)

\* the directory of a file that lies in the root itself
RootDir == 0

\* a file under the root: dir is RootDir or a format version (the directory
\* FVyymm), name the file's name
File(dir, name) == [dir |-> dir, name |-> name]

\* Path(name).stem: the name without its last suffix
Stem(name) ==
    LET dots == {i \in 2..Len(name) : name[i] = "."}
    IN  IF dots = {} \/ Max(dots) = Len(name) THEN name
        ELSE SubSeq(name, 1, Max(dots) - 1)

\* Path(name).suffix: the last suffix of the name, with its dot
Suffix(name) ==
    LET dots == {i \in 2..Len(name) : name[i] = "."}
    IN  IF dots = {} \/ Max(dots) = Len(name) THEN <<>>
        ELSE SubSeq(name, Max(dots), Len(name))

\* downloaded_file.stem.split("_")[-1]
FileIdOfDownloadedFile(name) ==
    LET parts == Split(Stem(name), "_") IN parts[Len(parts)]

\* d.get_meaningful_file_name() for d in documents
FileNames(documents) ==
    [i \in 1..Len(documents) |-> get_meaningful_file_name(documents[i])]

\* file_id_stem_mapping of _remove_old_files, with names the file names of the
\* documents: of the documents with a fileId, the last one's stem is the entry
FileIdStemMapping(documents, names) ==
    [ id \in {IntToStr(documents[i].fileId) : i \in 1..Len(documents)} |->
        LET last == Max({i \in 1..Len(documents) : IntToStr(documents[i].fileId) = id})
        IN  Stem(names[last]) ]

\* a condition that keeps every file with a recent fileId, whatever its name
WontDeleteByIdAlone(documents, names, f) ==
    FileIdOfDownloadedFile(f.name) \in
        {IntToStr(documents[i].fileId) : i \in 1..Len(documents)}

\* the condition of _remove_old_files under which a file is not unlinked
WontDelete(documents, names, f) ==
    LET all_recent_file_ids == {IntToStr(documents[i].fileId) : i \in 1..Len(documents)}
        file_id_of_downloaded_file == FileIdOfDownloadedFile(f.name)
    IN  /\ file_id_of_downloaded_file \in all_recent_file_ids
        /\ Stem(f.name) = FileIdStemMapping(documents, names)[file_id_of_downloaded_file]

\* _remove_old_files raises: a document's get_meaningful_file_name does, while
\* file_id_stem_mapping is built and before any file is unlinked
RemoveOldFilesRaises(names) == \E i \in 1..Len(names) : names[i] \in Errors

\* the files _remove_old_files unlinks, of the files under the root
RemovedOldFiles(documents, names, files) ==
    {f \in files : ~WontDelete(documents, names, f)}

\* chunked(download_tasks, 10)
ChunkSize == 10

\* the chunk a download task is in, and the tasks of a chunk
ChunkOf(t) == ((t - 1) \div ChunkSize) + 1
TasksOfChunk(c) == {t \in 1..Len(download_tasks) : ChunkOf(t) = c}

\* a download task: the coroutine download_document_for_all_fv(document) with
\* its document (the place in all_metadata of the one it refers to),
\* its place: "created" | "get" | "read" | "done" | "failed" | "cancelled",
\* the format versions it still has to download (the first one is in work),
\* its target_file_name and file_paths, and the exception it ended with
Task(document) ==
    [ document |-> document, st |-> "created", format_versions |-> <<>>,
      target_file_name |-> None, file_paths |-> <<>>, err |-> None ]

\* the document of a download task
TaskDocument(task) == all_metadata[task.document]

Settled(task) == task.st \in {"done", "failed", "cancelled"}

\* the tasks asyncio.gather has scheduled: those of the chunks up to chunk
Scheduled(t) == chunk >= 1 /\ ChunkOf(t) <= chunk

\* a gather that returns with the first task of the chunk that is done
GatherReturnsFirstCompleted(c) == \E t \in TasksOfChunk(c) : download_tasks[t].st = "done"

\* a gather that returns when every task of the chunk has ended, as with
\* return_exceptions=True
GatherReturnsExceptions(c) ==
    \A t \in TasksOfChunk(c) : download_tasks[t].st \in {"done", "failed"}

\* await asyncio.gather(*download_chunk) returns: every task of the chunk is done
GatherReturns(c) == \A t \in TasksOfChunk(c) : download_tasks[t].st = "done"

\* await asyncio.gather(*download_chunk) raises: a task of the chunk has failed
GatherRaises(c) == \E t \in TasksOfChunk(c) : download_tasks[t].st = "failed"

\* download_document_per_fv up to its await of self._session.get: the task
\* as it then is, with name what get_meaningful_file_name gives (failed when
\* it raises)
BeginPerFv(task, fvs, name) ==
    IF name \in Errors
    THEN [task EXCEPT !.st = "failed", !.format_versions = fvs, !.err = name]
    ELSE [task EXCEPT !.st = "get", !.format_versions = fvs, !.target_file_name = name]

\* a temporary file of one name for every download into a directory
TmpFilePathOfDirectory(task) ==
    File(Head(task.format_versions), <<"d","o","w","n","l","o","a","d",".","t","m","p">>)

\* file_path and tmp_file_path of the download the task is at
FilePath(task) == File(Head(task.format_versions), task.target_file_name)
TmpFilePath(task) ==
    File(Head(task.format_versions), task.target_file_name \o <<".","t","m","p">>)

\* a file with its bytes, written by the n-th call of mirror()
Written(data, n) == [data |-> data, written |-> n]

\* an empty file, as open(tmp_file_path, "wb+") leaves it
EmptyFile == OtherFile(0)

\* open(path, "wb+") and the writes to it, Path.unlink and Path.replace on
\* what the files hold
Write(files, path, file) ==
    [f \in DOMAIN files \cup {path} |-> IF f = path THEN file ELSE files[f]]
Unlink(files, path) == [f \in DOMAIN files \ {path} |-> files[f]]
Replace(files, path, target) ==
    [f \in (DOMAIN files \ {path}) \cup {target} |->
        IF f = target THEN files[path] ELSE files[f]]

\* a download that puts the new file in the place of the old one in any case
StepsOfReplacing(files, file_path, tmp_file_path, differs) ==
    << Replace(files, tmp_file_path, file_path) >>

\* what the files hold after each system call of lines 125-135, with differs
\* the answer of _have_different_metadata
StepsOfDownload(files, file_path, tmp_file_path, differs) ==
    IF file_path \in DOMAIN files /\ Suffix(file_path.name) = <<".","p","d","f">>
    THEN IF differs
         THEN << Unlink(files, file_path),
                 Replace(Unlink(files, file_path), tmp_file_path, file_path) >>
         ELSE << Unlink(files, tmp_file_path) >>
    ELSE << Replace(files, tmp_file_path, file_path) >>

\* the files after download_document_per_fv has read the response to its end:
\* lines 125-135, with differs the answer of _have_different_metadata
AfterDownload(files, file_path, tmp_file_path, differs) ==
    IF file_path \in files /\ Suffix(file_path.name) = <<".","p","d","f">>
    THEN IF differs
         THEN ((files \ {file_path}) \ {tmp_file_path}) \cup {file_path}
         ELSE files \ {tmp_file_path}
    ELSE (files \ {tmp_file_path}) \cup {file_path}

-----------------------------------------------------------------------------
(* The mirror run: its inputs *)

NoFlags == [i \in 1..4 |-> FALSE]
PdfType == "application/pdf"
DocxType == "application/vnd.openxmlformats-officedocument.wordprocessingml.document"
ZipType == "application/zip"
TitleMig == <<"I","F","T","S","T","A"," ","M","I","G"," ","2",".","0","e">>
TitleMigNewer == <<"I","F","T","S","T","A"," ","M","I","G"," ","2",".","0","f">>
TitleEbd == <<"E","B","D"," ","F","e","h","l","e","r","k","o","r","r","e","k","t","u","r"," ","1",".","1">>

\* a free PDF of one format version (validTo = validFrom)
DocMig == Document(9, TitleMig, TRUE, 20231001, 20231001, 20231001, NoFlags, PdfType)
\* the same fileId under a newer title
DocMigNewer == Document(9, TitleMigNewer, TRUE, 20231001, 20231001, 20231001, NoFlags, PdfType)
\* a free docx without validTo
DocOpen == Document(10, TitleEbd, TRUE, 20241001, 20241001, NoDate, NoFlags, DocxType)
\* a free PDF over two format versions
DocTwo == Document(12, TitleMig, TRUE, 20230401, 20230401, 20231001, NoFlags, PdfType)
\* a document that is not free
DocNotFree == Document(11, TitleEbd, FALSE, 20231001, 20231001, 20231001, NoFlags, PdfType)
\* documents of a fileType file_extension does not know, free and not free
DocZip == Document(13, TitleEbd, TRUE, 20231001, 20231001, 20231001, NoFlags, ZipType)
DocZipNotFree == Document(13, TitleEbd, FALSE, 20231001, 20231001, 20231001, NoFlags, ZipType)

\* a catalog of more free documents than one chunk of download tasks holds
LargeCatalog ==
    [ i \in 1..(ChunkSize + 1) |->
        Document(20 + i, TitleMig, TRUE, 20231001, 20231001, 20231001, NoFlags, PdfType) ]

SmallCatalogs ==
    { <<>>, <<DocMig>>, <<DocMig, DocOpen>>, <<DocTwo, DocNotFree>>,
      <<DocMig, DocZip>>, <<DocZip, DocMig>>, <<DocMig, DocZipNotFree>>,
      <<DocMigNewer, DocMig>>, <<DocMig, DocMig>>, <<DocNotFree>>, <<DocZipNotFree>> }

\* with name the name of a file, the name with another suffix
WithSuffix(name, suffix) == Stem(name) \o suffix

\* the files that may lie under the root when mirror() is called, with name
\* the file names of DocMig, DocMigNewer, DocOpen and DocNotFree
InitialFilesNamed(name) ==
    { File(2310, name[1]),                              \* as the run will write it
      File(RootDir, name[1]),                           \* the name, in the root
      File(2104, name[1]),                              \* the name, in another directory
      File(2310, name[2]),                              \* another name of the fileId
      File(2310, WithSuffix(name[1], <<".","d","o","c","x">>)),
      File(2310, name[1] \o <<".","t","m","p">>),       \* left by a download that broke
      File(2310, name[4]),                              \* of the document that is not free
      File(2504, name[3]),
      File(2310, <<"M","I","G","_","7",".","p","d","f">>),  \* a fileId of no document
      File(RootDir, <<"R","E","A","D","M","E">>) }

InitialFiles == InitialFilesNamed(FileNames(<<DocMig, DocMigNewer, DocOpen, DocNotFree>>))

MaxInitialFiles == 2

\* the calls of mirror(), one after the other
MaxRuns == 2

\* what a stored file holds and what the server sends for a fileId
FilesHeld ==
    { PdfFile(1, 1), PdfFile(1, 2), PdfFile(2, 1), EncryptedPdfFile(1), OtherFile(1) }

\* the inputs in which the file of a document is stored or not, with each of
\* what it may hold and each of what the server may send: a PDF of one format
\* version, and a docx of several
StoredAndServed ==
    LET target == <<File(2310, FileNames(<<DocMig>>)[1]),
                    File(2410, FileNames(<<DocOpen>>)[1])>>
        catalog == <<(<<DocMig>>), (<<DocOpen>>)>>
    IN  { [root |-> "dir", documents |-> catalog[i], broken |-> {},
           files |-> IF there THEN {target[i]} ELSE {},
           stored |-> old, file |-> new, runs |-> MaxRuns] :
            i \in 1..2, there \in BOOLEAN, old \in FilesHeld, new \in FilesHeld }

\* an input of the run: what is at the root, what the API answers, the fileIds
\* whose download the server breaks, the files under the root
Scenarios ==
    LET small == { [root |-> "dir", documents |-> c, broken |-> b, files |-> fs,
                    stored |-> PdfFile(1, 1), file |-> PdfFile(1, 1),
                    runs |-> IF b = {} /\ fs = {} THEN MaxRuns ELSE 1] :
                     c \in SmallCatalogs, b \in {{}, {9}, {12}},
                     fs \in {x \in SUBSET InitialFiles : Cardinality(x) <= MaxInitialFiles} }
        large == { [root |-> "dir", documents |-> LargeCatalog, broken |-> {}, files |-> fs,
                    stored |-> PdfFile(1, 1), file |-> PdfFile(1, 1), runs |-> 1] :
                     fs \in {{File(2310, <<"M","I","G","_","7",".","p","d","f">>)}} }
        noroot == { [root |-> r, documents |-> <<DocMig>>, broken |-> {}, files |-> {},
                     stored |-> PdfFile(1, 1), file |-> PdfFile(1, 1), runs |-> 1] :
                     r \in {"file", "missing"} }
    IN  small \cup large \cup noroot \cup StoredAndServed

\* a directory that is under the root whatever files there are
ADirectory == 2104

MirrorInit ==
    /\ \E s \in Scenarios :
          /\ root = s.root
          /\ api = [documents |-> s.documents, broken |-> s.broken, file |-> s.file]
          /\ disk = s.files
          /\ content = [f \in s.files |-> Written(s.stored, 0)]
          /\ content0 = [f \in s.files |-> Written(s.stored, 0)]
          /\ run = [n |-> 1, of |-> s.runs, before |-> "none"]
          /\ dirs = IF s.root = "dir"
                    THEN ({f.dir : f \in s.files} \ {RootDir}) \cup {ADirectory}
                    ELSE {}
          /\ disk0 = s.files
    /\ mpc = "called"
    /\ all_metadata = <<>>
    /\ download_tasks = <<>>
    /\ chunk = 0
    /\ evict = "no"
    /\ evicted = {}
    /\ exc = None
    /\ IdleCodec
    /\ IdleVersions
    /\ IdleCompare
    /\ IdleMatch
    /\ IdleLegacy

-----------------------------------------------------------------------------
(* The mirror run: mirror() and its download tasks, a step of the event     *)
(* loop being an action                                                     *)

ClientError == <<"ClientError">>
FileNotFoundError == <<"FileNotFoundError">>
CancelledError == <<"CancelledError">>

SetTask(t, task) == [download_tasks EXCEPT ![t] = task]

\* a root check that asks for the existence of the path alone
RootExists(r) == r # "missing"

\* self._root_dir.exists() and self._root_dir.is_dir(): line 144, the root being
\* a directory ("dir"), another kind of file ("file") or nothing ("missing")
RootIsDirectory(r) == r = "dir"

\* mirror() is called: lines 144-148, up to the await of get_documents_overview
MirrorCalled ==
    /\ mpc = "called"
    /\ IF ~RootIsDirectory(root)
       THEN mpc' = "raised" /\ exc' = ValueError
       ELSE mpc' = "overview" /\ exc' = exc
    /\ UNCHANGED <<root, api, disk, content, dirs, all_metadata, download_tasks, chunk,
                   evict, evicted, disk0, content0, run>>
    /\ UNCHANGED <<codec_vars, version_vars, compare_vars, match_vars, legacy_vars>>

\* a removal that takes the directories left without a file with it
DirsPruned(ds, files) == {d \in ds : \E f \in files : f.dir = d}

\* the directories ds after _remove_old_files, files being the files it has
\* left: line 64 lists what is_file() holds for, line 92 unlinks of those
DirsAfterRemoval(ds, files) == ds

\* self._remove_old_files(all_metadata) and the end of mirror(): lines 157-158,
\* with names the file names of the documents
RemoveOldFilesNamed(documents, names) ==
    IF RemoveOldFilesRaises(names)
    THEN /\ evict' = "raised"
         /\ exc' = names[Min({i \in 1..Len(names) : names[i] \in Errors})]
         /\ mpc' = "raised"
         /\ UNCHANGED <<disk, content, dirs, evicted>>
    ELSE /\ evict' = "ran"
         /\ evicted' = RemovedOldFiles(documents, names, disk)
         /\ disk' = disk \ RemovedOldFiles(documents, names, disk)
         /\ content' = [f \in disk \ RemovedOldFiles(documents, names, disk) |-> content[f]]
         /\ dirs' = DirsAfterRemoval(dirs, disk \ RemovedOldFiles(documents, names, disk))
         /\ mpc' = "returned"
         /\ exc' = exc

RemoveOldFiles(documents) == RemoveOldFilesNamed(documents, FileNames(documents))

\* a loop that makes a download task for every document
AllDocuments(documents) == [i \in 1..Len(documents) |-> i]

\* the documents the loop of lines 149-153 makes a download task for, as
\* their indices: those that are free
FreeDocuments(documents) ==
    SelectSeq([i \in 1..Len(documents) |-> i], LAMBDA i : documents[i].isFree)

\* get_documents_overview() returns: lines 148-155, up to the await of the
\* first asyncio.gather, or to the end of mirror() when nothing is to download
OverviewReturns ==
    /\ mpc = "overview"
    /\ all_metadata' = api.documents
    /\ download_tasks' =
          [t \in 1..Len(FreeDocuments(api.documents)) |->
              Task(FreeDocuments(api.documents)[t])]
    /\ IF FreeDocuments(api.documents) # <<>>
       THEN /\ chunk' = 1
            /\ mpc' = "gather"
            /\ UNCHANGED <<disk, content, dirs, evict, evicted, exc>>
       ELSE /\ chunk' = chunk
            /\ RemoveOldFiles(api.documents)
    /\ UNCHANGED <<root, api, disk0, content0, run>>
    /\ UNCHANGED <<codec_vars, version_vars, compare_vars, match_vars, legacy_vars>>

\* get_documents_overview() raises
OverviewRaises ==
    /\ mpc = "overview"
    /\ mpc' = "raised"
    /\ exc' = ClientError
    /\ UNCHANGED <<root, api, disk, content, dirs, all_metadata, download_tasks, chunk,
                   evict, evicted, disk0, content0, run>>
    /\ UNCHANGED <<codec_vars, version_vars, compare_vars, match_vars, legacy_vars>>

\* a task of the chunk under asyncio.gather runs first: lines 98-121, up to
\* the await of self._session.get; the tasks of a chunk start in their order
StartTask(t) ==
    /\ mpc \in {"gather", "raised", "download"}
    /\ Scheduled(t)
    /\ download_tasks[t].st = "created"
    /\ \A u \in TasksOfChunk(ChunkOf(t)) : u < t => download_tasks[u].st # "created"
    /\ LET task == download_tasks[t]
           fvs == get_valid_format_versions(TaskDocument(task).validFrom,
                                           TaskDocument(task).validTo)
       IN  /\ dirs' = dirs \cup {Head(fvs)}
           /\ download_tasks' = SetTask(t,
                  BeginPerFv(task, fvs, get_meaningful_file_name(TaskDocument(task))))
    /\ UNCHANGED <<root, api, disk, content, mpc, all_metadata, chunk, evict, evicted, exc, disk0, content0, run>>
    /\ UNCHANGED <<codec_vars, version_vars, compare_vars, match_vars, legacy_vars>>

\* self._session.get returns: line 122, the temporary file is opened "wb+",
\* up to the await of response.content.read
GetReturns(t) ==
    /\ mpc \in {"gather", "raised", "download"}
    /\ download_tasks[t].st = "get"
    /\ disk' = disk \cup {TmpFilePath(download_tasks[t])}
    /\ content' = Write(content, TmpFilePath(download_tasks[t]), Written(EmptyFile, run.n))
    /\ download_tasks' = SetTask(t, [download_tasks[t] EXCEPT !.st = "read"])
    /\ UNCHANGED <<root, api, dirs, mpc, all_metadata, chunk, evict, evicted, exc, disk0, content0, run>>
    /\ UNCHANGED <<codec_vars, version_vars, compare_vars, match_vars, legacy_vars>>

\* self._session.get raises
GetRaises(t) ==
    /\ mpc \in {"gather", "raised", "download"}
    /\ download_tasks[t].st = "get"
    /\ TaskDocument(download_tasks[t]).fileId \in api.broken
    /\ download_tasks' = SetTask(t, [download_tasks[t] EXCEPT !.st = "failed",
                                                              !.err = ClientError])
    /\ UNCHANGED <<root, api, disk, content, dirs, mpc, all_metadata, chunk, evict, evicted,
                   exc, disk0, content0, run>>
    /\ UNCHANGED <<codec_vars, version_vars, compare_vars, match_vars, legacy_vars>>

\* response.content.read raises: the temporary file stays
ReadRaises(t) ==
    /\ mpc \in {"gather", "raised", "download"}
    /\ download_tasks[t].st = "read"
    /\ TaskDocument(download_tasks[t]).fileId \in api.broken
    /\ download_tasks' = SetTask(t, [download_tasks[t] EXCEPT !.st = "failed",
                                                              !.err = ClientError])
    /\ UNCHANGED <<root, api, disk, content, dirs, mpc, all_metadata, chunk, evict, evicted,
                   exc, disk0, content0, run>>
    /\ UNCHANGED <<codec_vars, version_vars, compare_vars, match_vars, legacy_vars>>

\* what the files hold when the loop of lines 123-124 has written the
\* response to the temporary file
Downloaded(task) == Write(content, TmpFilePath(task), Written(api.file, run.n))

\* line 125: the file is there and is a PDF by its suffix
ComparesMetadata(task) ==
    FilePath(task) \in disk /\ Suffix(FilePath(task).name) = <<".","p","d","f">>

\* line 127: _have_different_metadata(file_path, tmp_file_path) raises
DownloadRaises(task) ==
    /\ ComparesMetadata(task)
    /\ HaveDifferentMetadataRaises(content[FilePath(task)].data, api.file)

\* line 127: _have_different_metadata(file_path, tmp_file_path) returns true
Differs(task) ==
    /\ ComparesMetadata(task)
    /\ have_different_metadata(content[FilePath(task)].data, api.file)

\* response.content.read returns the end of the response: lines 125-137, and
\* download_document_for_all_fv goes on with its next format version up to the
\* await of self._session.get, or returns file_paths
ReadReturns(t) ==
    /\ mpc \in {"gather", "raised", "download"}
    /\ download_tasks[t].st = "read"
    /\ LET task == download_tasks[t]
           rest == Tail(task.format_versions)
       IN  IF TmpFilePath(task) \notin disk
           THEN /\ download_tasks' = SetTask(t, [task EXCEPT !.st = "failed",
                                                             !.err = FileNotFoundError])
                /\ UNCHANGED <<disk, content, dirs>>
           ELSE IF DownloadRaises(task)
           THEN /\ download_tasks' = SetTask(t, [task EXCEPT !.st = "failed",
                                                             !.err = PdfReadError])
                /\ content' = Downloaded(task)
                /\ UNCHANGED <<disk, dirs>>
           ELSE /\ disk' = AfterDownload(disk, FilePath(task), TmpFilePath(task),
                                         Differs(task))
                /\ content' = Last(StepsOfDownload(Downloaded(task), FilePath(task),
                                                   TmpFilePath(task), Differs(task)))
                /\ dirs' = IF rest = <<>> THEN dirs ELSE dirs \cup {Head(rest)}
                /\ download_tasks' = SetTask(t,
                      [task EXCEPT !.st = IF rest = <<>> THEN "done" ELSE "get",
                                   !.format_versions = rest,
                                   !.file_paths = Append(task.file_paths, FilePath(task))])
    /\ UNCHANGED <<root, api, mpc, all_metadata, chunk, evict, evicted, exc, disk0, content0, run>>
    /\ UNCHANGED <<codec_vars, version_vars, compare_vars, match_vars, legacy_vars>>

\* asyncio.gather returns: lines 154-158, up to the await of the gather of the
\* next chunk, or through _remove_old_files to the end of mirror()
GatherReturned ==
    /\ mpc = "gather"
    /\ GatherReturns(chunk)
    /\ IF chunk * ChunkSize < Len(download_tasks)
       THEN /\ chunk' = chunk + 1
            /\ UNCHANGED <<disk, content, dirs, mpc, evict, evicted, exc>>
       ELSE /\ chunk' = chunk
            /\ RemoveOldFiles(all_metadata)
    /\ UNCHANGED <<root, api, all_metadata, download_tasks, disk0, content0, run>>
    /\ UNCHANGED <<codec_vars, version_vars, compare_vars, match_vars, legacy_vars>>

\* asyncio.gather raises the exception of a task of its chunk: mirror() ends
\* with it, the other tasks go on
GatherRaised ==
    /\ mpc = "gather"
    /\ GatherRaises(chunk)
    /\ mpc' = "raised"
    /\ \E t \in TasksOfChunk(chunk) :
          /\ download_tasks[t].st = "failed"
          /\ exc' = download_tasks[t].err
    /\ UNCHANGED <<root, api, disk, content, dirs, all_metadata, download_tasks, chunk,
                   evict, evicted, disk0, content0, run>>
    /\ UNCHANGED <<codec_vars, version_vars, compare_vars, match_vars, legacy_vars>>

\* mirror() is cancelled at one of its awaits: asyncio.gather cancels the tasks
\* of its chunk that have not ended
Cancel ==
    /\ mpc \in {"overview", "gather"}
    /\ mpc' = "cancelled"
    /\ exc' = CancelledError
    /\ download_tasks' =
          [t \in 1..Len(download_tasks) |->
              IF Scheduled(t) /\ ~Settled(download_tasks[t])
              THEN [download_tasks[t] EXCEPT !.st = "cancelled", !.err = CancelledError]
              ELSE download_tasks[t]]
    /\ UNCHANGED <<root, api, disk, content, dirs, all_metadata, chunk, evict, evicted, disk0, content0, run>>
    /\ UNCHANGED <<codec_vars, version_vars, compare_vars, match_vars, legacy_vars>>

\* mirror() has ended and every task it has started has: it is called again
MirrorAgain ==
    /\ mpc \in {"returned", "raised", "cancelled"}
    /\ run.n < run.of
    /\ \A t \in 1..Len(download_tasks) :
          Scheduled(t) => Settled(download_tasks[t])
    /\ run' = [run EXCEPT !.n = run.n + 1, !.before = mpc]
    /\ mpc' = "called"
    /\ all_metadata' = <<>>
    /\ download_tasks' = <<>>
    /\ chunk' = 0
    /\ evict' = "no"
    /\ evicted' = {}
    /\ exc' = None
    /\ disk0' = disk
    /\ content0' = content
    /\ UNCHANGED <<root, api, disk, content, dirs>>
    /\ UNCHANGED <<codec_vars, version_vars, compare_vars, match_vars, legacy_vars>>

Next ==
    \/ MirrorCalled
    \/ OverviewReturns
    \/ OverviewRaises
    \/ \E t \in 1..Len(download_tasks) : StartTask(t)
    \/ \E t \in 1..Len(download_tasks) : GetReturns(t)
    \/ \E t \in 1..Len(download_tasks) : GetRaises(t)
    \/ \E t \in 1..Len(download_tasks) : ReadRaises(t)
    \/ \E t \in 1..Len(download_tasks) : ReadReturns(t)
    \/ GatherReturned
    \/ GatherRaised
    \/ Cancel
    \/ MirrorAgain

Spec == MirrorInit /\ [][Next]_vars

-----------------------------------------------------------------------------
(* get_best_match: the download of the document a matcher returns *)

\* the directory of a path that is not under the root
Outside == 0 - 1

\* the path that is None
NoPath == File(Outside, None)

\* a path of the caller's that is free, and one that is taken
OwnPath == File(Outside, <<"m","y","_","d","o","c","u","m","e","n","t">>)
TakenPath == File(Outside, <<"t","a","k","e","n">>)

\* the inputs of get_best_match: the catalog, the document of it the matcher
\* returns (0: none), the path argument, the files there are and what they
\* hold, what the server sends and the fileIds whose download it breaks
BestMatchScenarios ==
    { [documents |-> c, matcher |-> m, path |-> p, files |-> fs \cup {TakenPath},
       broken |-> b, stored |-> h[1], file |-> h[2]] :
        c \in {<<DocMig, DocOpen>>, <<DocZip, DocMig>>, <<DocNotFree, DocTwo>>},
        m \in 0..2, p \in {NoPath, OwnPath, TakenPath},
        fs \in SUBSET {File(2310, FileNames(<<DocMig>>)[1]),
                       File(RootDir, <<"R","E","A","D","M","E">>)},
        b \in {{}, {9}},
        h \in {<<PdfFile(1, 1), PdfFile(1, 2)>>, <<PdfFile(1, 1), PdfFile(2, 1)>>,
               <<OtherFile(1), PdfFile(1, 1)>>} }

\* get_best_match is called: line 174, up to the await of
\* get_documents_overview
BestMatchInit ==
    /\ \E s \in BestMatchScenarios :
          /\ api = [documents |-> s.documents, broken |-> s.broken, file |-> s.file]
          /\ disk = s.files
          /\ disk0 = s.files
          /\ content = [f \in s.files |-> Written(s.stored, 0)]
          /\ content0 = [f \in s.files |-> Written(s.stored, 0)]
          /\ dirs = {f.dir : f \in s.files} \ {RootDir, Outside}
          /\ best_match = [matcher |-> s.matcher, path |-> s.path, returned |-> NoPath]
    /\ root = "dir"
    /\ mpc = "overview"
    /\ all_metadata = <<>>
    /\ download_tasks = <<>>
    /\ chunk = 0
    /\ evict = "no"
    /\ evicted = {}
    /\ exc = None
    /\ run = [n |-> 1, of |-> 1, before |-> "none"]
    /\ IdleCodec
    /\ IdleVersions
    /\ IdleCompare
    /\ IdleLegacy

\* a matcher that returns the first document whatever it is given
FirstDocument(documents, matcher) == IF documents = <<>> THEN 0 ELSE 1

\* matcher(all_metadata): the document the matcher returns, as its index (0:
\* none)
MatchingDocument(documents, matcher) == matcher

\* get_documents_overview() returns: lines 174-179 and download_document_per_fv
\* with no format version, lines 111-121, up to the await of self._session.get
BestMatchOverviewReturns ==
    /\ mpc = "overview"
    /\ all_metadata' = api.documents
    /\ IF MatchingDocument(api.documents, best_match.matcher) = 0
       THEN /\ mpc' = "returned"
            /\ UNCHANGED <<download_tasks, dirs, exc>>
       ELSE /\ download_tasks' =
                  << BeginPerFv(Task(MatchingDocument(api.documents, best_match.matcher)),
                        << get_edifact_format_version(
                              api.documents[MatchingDocument(api.documents,
                                                best_match.matcher)].validFrom) >>,
                        get_meaningful_file_name(
                              api.documents[MatchingDocument(api.documents,
                                                best_match.matcher)])) >>
            /\ dirs' = dirs \cup {get_edifact_format_version(
                              api.documents[MatchingDocument(api.documents,
                                                best_match.matcher)].validFrom)}
            /\ mpc' = IF download_tasks'[1].st = "failed" THEN "raised" ELSE "download"
            /\ exc' = download_tasks'[1].err
    /\ UNCHANGED <<root, api, disk, content, chunk, evict, evicted, disk0, content0, run>>
    /\ UNCHANGED <<codec_vars, version_vars, compare_vars, match_vars, legacy_vars>>

\* downloaded_path.rename(path): line 182
Rename(files, path, target) == Replace(files, path, target)

\* download_document_per_fv returns: lines 180-183
BestMatchDownloaded ==
    /\ mpc = "download"
    /\ download_tasks[1].st = "done"
    /\ mpc' = "returned"
    /\ IF best_match.path = NoPath
       THEN /\ best_match' = [best_match EXCEPT !.returned = download_tasks[1].file_paths[1]]
            /\ UNCHANGED <<disk, content>>
       ELSE /\ content' = Rename(content, download_tasks[1].file_paths[1], best_match.path)
            /\ disk' = DOMAIN Rename(content, download_tasks[1].file_paths[1],
                                     best_match.path)
            /\ best_match' = [best_match EXCEPT !.returned = best_match.path]
    /\ UNCHANGED <<root, api, dirs, all_metadata, download_tasks, chunk, evict, evicted,
                   exc, disk0, content0, run>>
    /\ UNCHANGED <<codec_vars, version_vars, compare_vars, legacy_vars>>

\* download_document_per_fv raises: get_best_match ends with its exception
BestMatchRaised ==
    /\ mpc = "download"
    /\ download_tasks[1].st = "failed"
    /\ mpc' = "raised"
    /\ exc' = download_tasks[1].err
    /\ UNCHANGED <<root, api, disk, content, dirs, all_metadata, download_tasks, chunk,
                   evict, evicted, disk0, content0, run>>
    /\ UNCHANGED <<codec_vars, version_vars, compare_vars, match_vars, legacy_vars>>

BestMatchNext ==
    \/ BestMatchOverviewReturns
    \/ OverviewRaises
    \/ \E t \in 1..Len(download_tasks) : GetReturns(t)
    \/ \E t \in 1..Len(download_tasks) : GetRaises(t)
    \/ \E t \in 1..Len(download_tasks) : ReadRaises(t)
    \/ \E t \in 1..Len(download_tasks) : ReadReturns(t)
    \/ BestMatchDownloaded
    \/ BestMatchRaised

SpecBestMatch == BestMatchInit /\ [][BestMatchNext]_vars

-----------------------------------------------------------------------------
(* __init__.py: the next format version *)

\* get_next_format_version, with today the date datetime.now gives
get_next_format_version(today) ==
    LET current == IndexOf(get_edifact_format_version(today))
    IN  IF current + 1 > Len(EdifactFormatVersion) THEN IndexError
        ELSE EdifactFormatVersion[current + 1]

\* format_versions.index(current) + 1 is past the end of the list
GetNextFormatVersionRaises(today) ==
    IndexOf(get_edifact_format_version(today)) + 1 > Len(EdifactFormatVersion)

-----------------------------------------------------------------------------
(* __init__.py: get_edifact_format_version_range_from_filename of the legacy *)
(* scraper                                                                   *)

\* the valid-to dates and the publication dates of the file names, as the
\* legacy scraper writes them into the name: <name>_<valid to>_<published>.pdf
LegacyValidToDates == {20230331, 20231001, 20240402, 20240930, 20250930, 99991231}
LegacyPublicationDates == {20230401, 20231001, 20240403, 20241001, 20250606}

\* days datetime.now may give; on the last one the last format version is the
\* current one
LegacyTodayDates == {20231101, 20241101, 20251101}

LegacyFileName(valid_to_date, publication) ==
    <<"I","F","T","S","T","A","M","I","G","2",".","0","e","_">> \o strftime(valid_to_date)
        \o <<"_">> \o strftime(publication) \o <<".","p","d","f">>

LegacyFileNames ==
    {LegacyFileName(v, p) : v \in LegacyValidToDates, p \in LegacyPublicationDates}

\* get_publication_date_from_filename: the last part of the stem
get_publication_date_from_filename(name) ==
    LET parts == Split(Stem(name), "_")
    IN  strptime(parts[Len(parts)])

\* get_valid_to_date_from_filename: the last part but one of the stem
get_valid_to_date_from_filename(name) ==
    LET parts == Split(Stem(name), "_")
    IN  IF parts[Len(parts) - 1] = <<"9","9","9","9","1","2","3","1">> THEN 99991231
        ELSE strptime(parts[Len(parts) - 1])

\* format_versions[format_versions.index(start) : format_versions.index(end) + 1]
FormatVersionSlice(format_version_start, format_version_end) ==
    SubSeq(EdifactFormatVersion, IndexOf(format_version_start), IndexOf(format_version_end))

\* the list get_edifact_format_version_range_from_filename returns when
\* get_next_format_version has returned
FormatVersionRange(name, today) ==
    LET next_format_version  == get_next_format_version(today)
        format_version_start ==
            get_edifact_format_version(get_publication_date_from_filename(name))
        format_version_end   ==
            get_edifact_format_version(get_valid_to_date_from_filename(name))
    IN  FormatVersionSlice(format_version_start,
                           IF format_version_end > next_format_version
                           THEN next_format_version ELSE format_version_end)

LegacyRangeInit ==
    /\ fv_range \in [ pc : {"called"}, name : LegacyFileNames, today : LegacyTodayDates,
                      format_version_range : {<<>>}, exc : {None} ]
    /\ retry = None
    /\ removal = None
    /\ IdleCodec
    /\ IdleVersions
    /\ IdleMirror
    /\ IdleCompare
    /\ IdleMatch

\* the call returns its list
FormatVersionRangeReturns ==
    /\ fv_range.pc = "called"
    /\ ~GetNextFormatVersionRaises(fv_range.today)
    /\ fv_range' = [fv_range EXCEPT !.pc = "returned",
                        !.format_version_range = FormatVersionRange(fv_range.name, fv_range.today)]
    /\ UNCHANGED <<codec_vars, version_vars, mirror_vars, compare_vars, match_vars,
                   retry, removal>>

\* get_next_format_version raises and the call with it
FormatVersionRangeRaises ==
    /\ fv_range.pc = "called"
    /\ GetNextFormatVersionRaises(fv_range.today)
    /\ fv_range' = [fv_range EXCEPT !.pc = "raised", !.exc = IndexError]
    /\ UNCHANGED <<codec_vars, version_vars, mirror_vars, compare_vars, match_vars,
                   retry, removal>>

LegacyRangeNext ==
    \/ FormatVersionRangeReturns
    \/ FormatVersionRangeRaises

SpecLegacyRange == LegacyRangeInit /\ [][LegacyRangeNext]_vars

-----------------------------------------------------------------------------
(* __init__.py: _download_and_save_pdf of the legacy scraper, its two loops  *)
(* around the request and around the reading of the response                 *)

TimeoutError == <<"TimeoutError">>
ServerDisconnectedError == <<"ServerDisconnectedError">>
UnboundLocalError == <<"UnboundLocalError">>
KeyError == <<"KeyError">>

\* range(5, 0, -1) of the loop around self.requests.get, and range(4, 0, -1)
\* of the loop around response.content.read
GetTries == 5
ReadTries == 4

\* list(range(n, 0, -1))
RangeDown(n) == [i \in 1..n |-> n + 1 - i]

\* "if number_of_tries <= 0": the except clause raises again
NoTryLeft(number_of_tries) == number_of_tries <= 0

\* _download_and_save_pdf is called: lines 79-85, up to the first await of
\* self.requests.get; header tells whether the response will have a
\* Content-Disposition header
LegacyDownloadInit ==
    /\ \E header \in BOOLEAN :
          retry = [ pc |-> "get", number_of_tries |-> Head(RangeDown(GetTries)),
                    tries |-> Tail(RangeDown(GetTries)), errors |-> <<>>,
                    read_timeouts |-> 0, response |-> "unbound",
                    response_content |-> "unbound", header |-> header,
                    exc |-> None ]
    /\ removal = None
    /\ fv_range = None
    /\ IdleCodec
    /\ IdleVersions
    /\ IdleMirror
    /\ IdleCompare
    /\ IdleMatch

\* self.requests.get returns: lines 85-86 and 95-101, through
\* _add_file_extension_to_file_basename (headers["Content-Disposition"], line
\* 168) up to the first await of response.content.read
RequestsGetReturns ==
    /\ retry.pc = "get"
    /\ retry' = IF retry.header
                THEN [retry EXCEPT !.response = "received", !.pc = "read",
                                   !.number_of_tries = Head(RangeDown(ReadTries)),
                                   !.tries = Tail(RangeDown(ReadTries))]
                ELSE [retry EXCEPT !.response = "received", !.pc = "raised",
                                   !.exc = KeyError]
    /\ UNCHANGED <<removal, fv_range>>
    /\ UNCHANGED <<codec_vars, version_vars, mirror_vars, compare_vars, match_vars>>

\* self.requests.get raises asyncio.TimeoutError or ServerDisconnectedError:
\* lines 87-94, up to the await of asyncio.sleep
RequestsGetRaises ==
    /\ retry.pc = "get"
    /\ \E e \in {TimeoutError, ServerDisconnectedError} :
          retry' = IF NoTryLeft(retry.number_of_tries)
                   THEN [retry EXCEPT !.errors = Append(@, e), !.pc = "raised", !.exc = e]
                   ELSE [retry EXCEPT !.errors = Append(@, e), !.pc = "sleep"]
    /\ UNCHANGED <<removal, fv_range>>
    /\ UNCHANGED <<codec_vars, version_vars, mirror_vars, compare_vars, match_vars>>

\* asyncio.sleep returns in the first loop: the next value of the range and
\* the next request; when the range is at its end the loop is left and line 96
\* reads response.headers of a response that was never bound
RequestsSleepReturns ==
    /\ retry.pc = "sleep"
    /\ retry' = IF retry.tries = <<>>
                THEN [retry EXCEPT !.pc = "raised", !.exc = UnboundLocalError]
                ELSE [retry EXCEPT !.pc = "get", !.number_of_tries = Head(retry.tries),
                                   !.tries = Tail(retry.tries)]
    /\ UNCHANGED <<removal, fv_range>>
    /\ UNCHANGED <<codec_vars, version_vars, mirror_vars, compare_vars, match_vars>>

\* response.content.read returns: lines 101-102 and 109-135, the files are
\* saved and their paths returned
ContentReadReturns ==
    /\ retry.pc = "read"
    /\ retry' = [retry EXCEPT !.response_content = "read", !.pc = "returned"]
    /\ UNCHANGED <<removal, fv_range>>
    /\ UNCHANGED <<codec_vars, version_vars, mirror_vars, compare_vars, match_vars>>

\* response.content.read raises asyncio.TimeoutError: lines 103-107, up to the
\* await of asyncio.sleep
ContentReadRaises ==
    /\ retry.pc = "read"
    /\ retry' = IF NoTryLeft(retry.number_of_tries)
                THEN [retry EXCEPT !.read_timeouts = @ + 1, !.pc = "raised",
                                   !.exc = TimeoutError]
                ELSE [retry EXCEPT !.read_timeouts = @ + 1, !.pc = "sleep_read"]
    /\ UNCHANGED <<removal, fv_range>>
    /\ UNCHANGED <<codec_vars, version_vars, mirror_vars, compare_vars, match_vars>>

\* asyncio.sleep returns in the second loop: the next read; when the range is
\* at its end the loop is left and the saving writes a response_content that
\* was never bound
ContentSleepReturns ==
    /\ retry.pc = "sleep_read"
    /\ retry' = IF retry.tries = <<>>
                THEN [retry EXCEPT !.pc = "raised", !.exc = UnboundLocalError]
                ELSE [retry EXCEPT !.pc = "read", !.number_of_tries = Head(retry.tries),
                                   !.tries = Tail(retry.tries)]
    /\ UNCHANGED <<removal, fv_range>>
    /\ UNCHANGED <<codec_vars, version_vars, mirror_vars, compare_vars, match_vars>>

LegacyDownloadNext ==
    \/ RequestsGetReturns
    \/ RequestsGetRaises
    \/ RequestsSleepReturns
    \/ ContentReadReturns
    \/ ContentReadRaises
    \/ ContentSleepReturns

SpecLegacyDownload == LegacyDownloadInit /\ [][LegacyDownloadNext]_vars

-----------------------------------------------------------------------------
(* __init__.py: remove_no_longer_online_files of the legacy scraper *)

\* the paths of the files that may lie in the mirror directory or be named by
\* online_files: PDFs, a page of the site, an XML file, a docx
LegacyPaths ==
    { File(2310, <<"e","x","a","m","p","l","e","_","a","h","b",".","p","d","f">>), File(2310, <<"e","x","a","m","p","l","e","_","a","h","b","_","2",".","p","d","f">>), File(RootDir, <<"f","u","t","u","r","e","_","2","0","2","1","0","2","1","0",".","h","t","m","l">>),
      File(2310, <<"s","c","h","e","m","a",".","x","m","l">>), File(2310, <<"a","h","b",".","d","o","c","x">>) }

\* fnmatch of a name against "*.*[!html]": a dot, anything, and a last
\* character after the dot that is none of h, t, m, l
GlobMatches(name) ==
    /\ Last(name) \notin {"h", "t", "m", "l"}
    /\ \E i \in 1..(Len(name) - 1) : name[i] = "."

\* set(self._root_dir.glob("**/*.*[!html]")) over the files of the directory
AllFilesInMirrorDir(files) == {f \in files : GlobMatches(f.name)}

\* all_files_in_mirror_dir.symmetric_difference(online_files)
NoLongerOnlineFiles(files, online_files) ==
    (AllFilesInMirrorDir(files) \ online_files)
        \cup (online_files \ AllFilesInMirrorDir(files))

\* remove_no_longer_online_files is called with a set of paths, the mirror
\* directory holding some files
LegacyRemovalInit ==
    /\ \E files \in SUBSET LegacyPaths, online_files \in SUBSET LegacyPaths :
          removal = [ pc |-> "called", files |-> files, files0 |-> files,
                      online_files |-> online_files, returned |-> {},
                      exc |-> None ]
    /\ retry = None
    /\ fv_range = None
    /\ IdleCodec
    /\ IdleVersions
    /\ IdleMirror
    /\ IdleCompare
    /\ IdleMatch

\* remove_no_longer_online_files: lines 305-311.  The loop runs over a set, in
\* an order of its own; os.remove of a path at which no file is raises
\* FileNotFoundError, after any of the other paths have been removed
RemoveNoLongerOnlineFiles ==
    /\ removal.pc = "called"
    /\ LET no_longer_online_files ==
               NoLongerOnlineFiles(removal.files, removal.online_files)
       IN  IF no_longer_online_files \subseteq removal.files
           THEN removal' = [removal EXCEPT !.pc = "returned",
                                           !.files = @ \ no_longer_online_files,
                                           !.returned = no_longer_online_files]
           ELSE \E done \in SUBSET (no_longer_online_files \cap removal.files) :
                   removal' = [removal EXCEPT !.pc = "raised",
                                              !.files = @ \ done,
                                              !.exc = FileNotFoundError]
    /\ UNCHANGED <<retry, fv_range>>
    /\ UNCHANGED <<codec_vars, version_vars, mirror_vars, compare_vars, match_vars>>

LegacyRemovalNext == RemoveNoLongerOnlineFiles

SpecLegacyRemoval == LegacyRemovalInit /\ [][LegacyRemovalNext]_vars

-----------------------------------------------------------------------------
(* The mirror run: properties *)

\* the format versions of the directories of a sequence of paths
DirsOf(paths) == [i \in 1..Len(paths) |-> paths[i].dir]

\* download tasks that have returned, of documents without validTo
OpenEndedDone ==
    {t \in 1..Len(download_tasks) :
        /\ download_tasks[t].st = "done"
        /\ TaskDocument(download_tasks[t]).validTo = NoDate}

\* days a run may take place on, before the last format version is current
TodayDates == {20241101, 20250101}

\* C4 as stated: a document without validTo is filed under the format versions
\* from the one of its validFrom through the one that is next at today, and
\* under none beyond.
C4_ThroughNextVersion ==
    \A t \in OpenEndedDone : \A today \in TodayDates :
        DirsOf(download_tasks[t].file_paths) =
            VersionsBetween(get_edifact_format_version(TaskDocument(download_tasks[t]).validFrom),
                            get_next_format_version(today))

\* C4: a document without validTo is filed by the mirror run under every
\* format version from the one of its validFrom through the last one of the
\* enumeration, whatever the day of the run.
C4_ThroughMaximumVersion ==
    \A t \in OpenEndedDone :
        LET fvs == DirsOf(download_tasks[t].file_paths)
        IN  /\ fvs # <<>>
            /\ fvs[1] = get_edifact_format_version(TaskDocument(download_tasks[t]).validFrom)
            /\ fvs[Len(fvs)] = EdifactFormatVersion[Len(EdifactFormatVersion)]
            /\ Contiguous(fvs)
            /\ \A i \in 1..Len(fvs) :
                  File(fvs[i], download_tasks[t].target_file_name) \in disk \cup evicted

\* a document without validTo has been filed under a version beyond the one
\* that is next at a day of TodayDates
C4_Witness ==
    \E t \in OpenEndedDone : \E today \in TodayDates :
        LET fvs == DirsOf(download_tasks[t].file_paths)
        IN  /\ Len(fvs) >= 3
            /\ fvs[Len(fvs)] > get_next_format_version(today)

\* E: the files under the root when _remove_old_files runs
FilesBeforeRemoval == disk \cup evicted

\* D: for each document of the catalog that is downloaded, its file name in
\* each directory of its format versions
DesiredFiles ==
    UNION { { File(fv, get_meaningful_file_name(all_metadata[i])) :
                fv \in Range(get_valid_format_versions(all_metadata[i].validFrom,
                                                       all_metadata[i].validTo)) } :
            i \in {j \in 1..Len(all_metadata) : all_metadata[j].isFree} }

\* C7 as stated: _remove_old_files removes exactly the files under the root
\* that are not desired, and leaves the desired ones.
C7_RemovesAllButDesired ==
    evict = "ran" =>
        /\ evicted = FilesBeforeRemoval \ DesiredFiles
        /\ (DesiredFiles \cap FilesBeforeRemoval) \subseteq disk

\* the last document of the catalog with the fileId a file's stem ends with,
\* free or not, has the file's stem as the stem of its file name
NamedByCatalog(f) ==
    LET tokens == Split(Stem(f.name), "_")
        same == {i \in 1..Len(all_metadata) :
                    IntToStr(all_metadata[i].fileId) = tokens[Len(tokens)]}
    IN  /\ same # {}
        /\ Stem(get_meaningful_file_name(all_metadata[Max(same)])) = Stem(f.name)

\* C7: _remove_old_files removes exactly the files under the root, in whatever
\* directory and of whatever suffix, whose stem is not the stem of the file
\* name of the last document of the catalog, free or not, with the fileId the
\* stem ends with; when a document has no file name, it removes nothing.
C7_RemovesByIdAndStem ==
    /\ evict = "ran" =>
          /\ evicted = {f \in FilesBeforeRemoval : ~NamedByCatalog(f)}
          /\ disk = {f \in FilesBeforeRemoval : NamedByCatalog(f)}
    /\ evict = "raised" =>
          /\ evicted = {}
          /\ \E i \in 1..Len(all_metadata) :
                get_meaningful_file_name(all_metadata[i]) \in Errors

\* _remove_old_files has removed a file with a fileId of the catalog under
\* another name, and has left a file that is not desired
C7_Witness ==
    /\ evict = "ran"
    /\ \E f \in evicted :
          FileIdOfDownloadedFile(f.name) \in
              {IntToStr(all_metadata[i].fileId) : i \in 1..Len(all_metadata)}
    /\ \E f \in disk : f \in disk0 /\ f \notin DesiredFiles
    /\ \E f \in disk : f \in DesiredFiles

\* C8: _remove_old_files runs only when every download task of the run has
\* returned: while a task is created or in flight no file has been removed.
C8_EvictAfterDownloads ==
    (evict # "no" \/ evicted # {}) =>
        \A t \in 1..Len(download_tasks) : download_tasks[t].st = "done"

\* _remove_old_files has removed files after the tasks of two chunks
C8_Witness ==
    /\ evict = "ran"
    /\ evicted # {}
    /\ chunk = 2
    /\ \A t \in 1..Len(download_tasks) : download_tasks[t].st = "done"

\* the runs of C9: the fetch of the catalog has failed, a download task has
\* failed, or the run has been cancelled at one of its awaits
FetchFailed == mpc = "raised" /\ chunk = 0 /\ exc = ClientError
DownloadFailed == \E t \in 1..Len(download_tasks) : download_tasks[t].st = "failed"
Cancelled == mpc = "cancelled"

\* the temporary paths of the downloads of the run
TmpFilePaths ==
    { File(fv, download_tasks[t].target_file_name \o <<".","t","m","p">>) :
        t \in {u \in 1..Len(download_tasks) : download_tasks[u].target_file_name # None},
        fv \in Range(EdifactFormatVersion) }

\* C9: when the fetch of the catalog fails, a download task fails or the run
\* is cancelled, _remove_old_files does not run and removes nothing: every
\* file that lay under the root is still there, but for a file at the
\* temporary path of a download, which the download opens for writing.
C9_FailClosed ==
    (FetchFailed \/ DownloadFailed \/ Cancelled) =>
        /\ evict = "no"
        /\ evicted = {}
        /\ \A f \in disk0 : f \in disk \/ f \in TmpFilePaths

\* a download task has failed and mirror() has ended with its exception, with
\* files under the root that _remove_old_files would remove
C9_Witness ==
    /\ DownloadFailed
    /\ mpc = "raised"
    /\ exc = ClientError
    /\ \E t \in 1..Len(download_tasks) : download_tasks[t].st = "done"
    /\ RemovedOldFiles(all_metadata, FileNames(all_metadata), disk) \cap disk0 # {}

\* the documents of the catalog with a fileType file_extension does not know
Unsupported == {i \in 1..Len(all_metadata) : file_extension(all_metadata[i]) \in Errors}

\* C10 as stated: a document with a fileType that is not supported fails alone:
\* a run in which nothing else fails returns, with every other free document
\* downloaded and _remove_old_files run.
C10_UnsupportedFailsAlone ==
    ( /\ Unsupported # {}
      /\ mpc \in {"returned", "raised"}
      /\ \A t \in 1..Len(download_tasks) : download_tasks[t].err # ClientError ) =>
        /\ mpc = "returned"
        /\ evict = "ran"
        /\ \A t \in 1..Len(download_tasks) :
              download_tasks[t].document \notin Unsupported => download_tasks[t].st = "done"

C17_NameWithoutSeparator ==
    (cpc = "encoded" /\ doc \in Iftsta42Documents) =>
        /\ file_name \notin Errors
        /\ StartsWith(file_name, <<"M","I","G","_","I","F","T","S","T","A",
                                   "2",".","0","e","_",
                                   "2","0","2","3","1","0","0","1","_",
                                   "2","0","2","4","0","9","3","0","_">>)
        /\ EndsWith(file_name, <<"_","o","o","o","o","_","4","2",".","p","d","f">>)

\* C17: the IFTSTA MIG 2.0e of fileId 42 encodes to a filename that starts with
\* "MIG_IFTSTA_2.0e_20231001_20240930_", the format and the version being
\* separated by "_", and ends with "_oooo_42.pdf".
C17_NameOfIftsta42 ==
    (cpc = "encoded" /\ doc \in Iftsta42Documents) =>
        /\ file_name \notin Errors
        /\ StartsWith(file_name, <<"M","I","G","_","I","F","T","S","T","A","_",
                                   "2",".","0","e","_",
                                   "2","0","2","3","1","0","0","1","_",
                                   "2","0","2","4","0","9","3","0","_">>)
        /\ EndsWith(file_name, <<"_","o","o","o","o","_","4","2",".","p","d","f">>)

\* C17's case: the IFTSTA MIG 2.0e of fileId 42 has been encoded
C17_Witness ==
    /\ cpc = "encoded" /\ doc \in Iftsta42Documents /\ file_name \notin Errors

\* C20: _remove_old_files removes no directory: the directories under the root
\* are the same after it as before it, those without a file among them.
C20_DirectoriesStay ==
    [][evict' # evict => dirs' = dirs]_vars

\* C20's case: _remove_old_files has run and has unlinked the last file of a
\* directory, which is there as is the directory that never held a file
C20_Witness ==
    /\ evict = "ran"
    /\ ADirectory \in dirs /\ \A f \in disk0 \cup disk : f.dir # ADirectory
    /\ \E f \in evicted :
          /\ f.dir # RootDir /\ f.dir \in dirs
          /\ \A g \in disk : g.dir # f.dir

\* the files of the run that bear the file name of a document of the catalog
\* that is not free
FilesOfNotFree ==
    {f \in FilesBeforeRemoval :
        \E i \in 1..Len(all_metadata) :
            /\ ~all_metadata[i].isFree
            /\ f.name = get_meaningful_file_name(all_metadata[i])}

\* every download task is one of a free document
OnlyFreeDownloaded ==
    \A t \in 1..Len(download_tasks) : TaskDocument(download_tasks[t]).isFree

\* C18 as stated: mirror() downloads free documents only, and
\* _remove_old_files removes the files that bear the file name of a document
\* of the catalog that is not free.
C18_NotFreeRemoved ==
    /\ OnlyFreeDownloaded
    /\ evict = "ran" => FilesOfNotFree \subseteq evicted

\* C18: mirror() downloads free documents only, and _remove_old_files leaves
\* a file that bears the file name of a document of the catalog that is not
\* free where it is, unless a later document of the catalog has the fileId
\* under another name.
C18_NotFreeKept ==
    /\ OnlyFreeDownloaded
    /\ evict = "ran" =>
          \A f \in FilesOfNotFree : IF NamedByCatalog(f) THEN f \in disk
                                                         ELSE f \in evicted

\* C18's case: _remove_old_files has run after the download of a free document
\* and has left the file of a document that is not free
C18_Witness ==
    /\ evict = "ran"
    /\ download_tasks # <<>>
    /\ \E f \in FilesOfNotFree : f \in disk /\ f \in disk0

\* the step in which task t has read the response to its end
ReadToTheEnd(t) ==
    /\ t \in DOMAIN download_tasks /\ t \in DOMAIN download_tasks'
    /\ download_tasks[t].st = "read"
    /\ download_tasks'[t].st \in {"get", "done", "failed"}
    /\ download_tasks'[t].err # ClientError

\* C14: when the stored PDF or the download is no PDF that can be read, the
\* download does not fail and ends with the stored file replaced by the
\* download.
C14_UnparseableReplaced ==
    [][\A t \in 1..Len(download_tasks) :
          (/\ ReadToTheEnd(t)
           /\ ComparesMetadata(download_tasks[t])
           /\ TmpFilePath(download_tasks[t]) \in disk
           /\ \/ ~content[FilePath(download_tasks[t])].data.is_pdf
              \/ ~api.file.is_pdf)
          => /\ download_tasks'[t].st # "failed"
             /\ FilePath(download_tasks[t]) \in disk'
             /\ content'[FilePath(download_tasks[t])] = Written(api.file, run.n)]_vars

\* the step in which task t has put its download in the place of the file that
\* was there, or has left that file
DownloadedOver(t) ==
    /\ ReadToTheEnd(t)
    /\ download_tasks'[t].st # "failed"
    /\ FilePath(download_tasks[t]) \in disk

\* C15: while a download is put in the place of a file, the file is there at
\* each system call and holds what it held or what has been downloaded.
C15_AtomicReplacement ==
    [][\A t \in 1..Len(download_tasks) :
          DownloadedOver(t) =>
              \A files \in Range(StepsOfDownload(Downloaded(download_tasks[t]),
                                                 FilePath(download_tasks[t]),
                                                 TmpFilePath(download_tasks[t]),
                                                 Differs(download_tasks[t]))) :
                  /\ FilePath(download_tasks[t]) \in DOMAIN files
                  /\ files[FilePath(download_tasks[t])] \in
                        {content[FilePath(download_tasks[t])], Written(api.file, run.n)}]_vars

\* the file at the path is a PDF by its suffix
IsPdfPath(path) == Suffix(path.name) = <<".","p","d","f">>

\* the stored PDF and the download are PDFs with the same document information
SameMetadata(stored, new) ==
    Readable(stored) /\ Readable(new) /\ stored.metadata = new.metadata

\* C16 as stated: a download leaves the file that is there as it is when the
\* file is a PDF with the document information of the download, or is of
\* another type and holds the bytes of the download.
C16_UntouchedWhenSame ==
    [][\A t \in 1..Len(download_tasks) :
          (/\ DownloadedOver(t)
           /\ IF IsPdfPath(FilePath(download_tasks[t]))
              THEN SameMetadata(content[FilePath(download_tasks[t])].data, api.file)
              ELSE content[FilePath(download_tasks[t])].data = api.file)
          => content'[FilePath(download_tasks[t])] =
                content[FilePath(download_tasks[t])]]_vars

\* C16: a download leaves the PDF that is there as it is when the PDF and the
\* download are PDFs with the same document information; a file of another
\* type is replaced by the download, whatever the two hold.
C16_UntouchedPdfOnly ==
    [][\A t \in 1..Len(download_tasks) :
          DownloadedOver(t) =>
              IF IsPdfPath(FilePath(download_tasks[t]))
              THEN SameMetadata(content[FilePath(download_tasks[t])].data, api.file)
                   => content'[FilePath(download_tasks[t])] =
                         content[FilePath(download_tasks[t])]
              ELSE content'[FilePath(download_tasks[t])] =
                         Written(api.file, run.n)]_vars

\* C16's case: a download of this run has replaced a docx that was there and
\* held the bytes of the download
C16_Witness ==
    /\ \E t \in 1..Len(download_tasks) :
          \E p \in Range(download_tasks[t].file_paths) :
              /\ p \in disk0 /\ p \in disk /\ ~IsPdfPath(p)
              /\ content0[p].data = api.file
              /\ content0[p].written < run.n
              /\ content[p] = Written(api.file, run.n)

\* C12: in a call of mirror() that follows one that has returned, the catalog
\* and what the server sends being the same, no file is removed and every
\* file that was there stays and holds the bytes it held.
C12_SecondRunChangesNothing ==
    (run.n > 1 /\ run.before = "returned") =>
        /\ evicted = {}
        /\ \A f \in disk0 : f \in disk /\ content[f].data = content0[f].data

\* the path get_best_match downloads the document of its matcher to: its file
\* name in the directory of the format version of its validFrom
DownloadedPath ==
    File(get_edifact_format_version(api.documents[best_match.matcher].validFrom),
         get_meaningful_file_name(api.documents[best_match.matcher]))

\* what the file get_best_match has returned may hold: the download, or what
\* the stored file held that the download has left in its place
DownloadOrStored ==
    {Written(api.file, run.n)} \cup
        {content0[f] : f \in {DownloadedPath} \cap disk0}

\* C19: with a matcher that returns no document get_best_match downloads
\* nothing and returns None; with one that returns a document it downloads
\* that document alone, to the directory of the format version of its
\* validFrom, touches no other file, and returns the path of the download or,
\* given a path, that path, to which it has moved the file away from the
\* mirror.
C19_BestMatchOnly ==
    IF best_match.matcher = 0
    THEN /\ download_tasks = <<>> /\ disk = disk0 /\ content = content0
         /\ best_match.returned = NoPath
    ELSE /\ \A t \in 1..Len(download_tasks) :
              t = 1 /\ download_tasks[t].document = best_match.matcher
         /\ disk \ disk0 \subseteq
              {DownloadedPath, best_match.path,
               File(DownloadedPath.dir, DownloadedPath.name \o <<".","t","m","p">>)}
         /\ \A f \in disk0 \ {DownloadedPath, best_match.path} :
              f \in disk /\ content[f] = content0[f]
         /\ mpc = "returned" =>
              /\ best_match.returned \in disk
              /\ content[best_match.returned] \in DownloadOrStored
              /\ IF best_match.path = NoPath
                 THEN best_match.returned = DownloadedPath
                 ELSE /\ best_match.returned = best_match.path
                      /\ DownloadedPath \notin disk

\* C19's case: get_best_match has downloaded the document of its matcher and
\* has moved it to the path it was given
C19_Witness ==
    /\ mpc = "returned"
    /\ best_match.matcher # 0
    /\ best_match.path = OwnPath
    /\ best_match.returned = OwnPath
    /\ OwnPath \in disk /\ DownloadedPath \notin disk
    /\ content[OwnPath] = Written(api.file, run.n)

\* C21: a record of the catalog with no fileId and no fileType is a Document
\* whose file_kind is None, and its get_meaningful_file_name raises a
\* ValueError instead of giving a filename.
C21_ExternalLinkRecord ==
    (doc \in ExternalLinkRecords /\ cpc # "received") =>
        /\ cpc # "invalid"
        /\ file_kind(doc) = None
        /\ cpc = "encoded" => file_name = ValueError

\* the first token of six consecutive upper-case letters of a title, None when
\* the title has none
FirstFormatToken(title) ==
    IF FormatPositions(title) = {} THEN None
    ELSE SubSeq(title, Min(FormatPositions(title)) + 1, Min(FormatPositions(title)) + 6)

\* C22: edifact_format of a title is a member of the format codes or None: it
\* is the first token of six upper-case letters when that is a format code, and
\* None when the title has no such token.
C22_FirstFormatToken ==
    (cpc = "encoded" /\ doc \in TitledRecords) =>
        /\ edifact_format(doc) \in EdifactFormat \cup {None}
        /\ FormatPositions(doc.title) = {} => edifact_format(doc) = None
        /\ FirstFormatToken(doc.title) \in EdifactFormat =>
              edifact_format(doc) = FirstFormatToken(doc.title)

\* C23: document_version of a title is None or matches ^\d+\.\d+[a-z]?$, and
\* decoding a filename never fails on the version written into it.
C23_VersionAccepted ==
    /\ (cpc = "encoded" /\ doc \in TitledRecords) =>
          \/ document_version(doc) = None
          \/ VersionConstraint(document_version(doc))
    /\ (cpc = "decoded" /\ doc \in TitledRecords) =>
          metadata.error # ValidationError

\* the title contains the keyword, whatever the case of its letters
KeywordInTitle(d, keyword) == Contains(ToLower(d.title), keyword)

\* C24: each derived flag is true iff its catalog flag is true or the title
\* contains its keyword: konsolidierte, fehler, informatorische, and
\* ausserordentlich or außerordentlich.
C24_FlagsByKeyword ==
    (cpc = "encoded" /\ doc \in TitledRecords) =>
        /\ is_consolidated_reading_version(doc) <=>
              \/ doc.isConsolidatedReadingVersion
              \/ KeywordInTitle(doc, <<"k","o","n","s","o","l","i","d","i","e","r","t","e">>)
        /\ is_error_correction(doc) <=>
              \/ doc.isErrorCorrection
              \/ KeywordInTitle(doc, <<"f","e","h","l","e","r">>)
        /\ is_informational_reading_version(doc) <=>
              \/ doc.isInformationalReadingVersion
              \/ KeywordInTitle(doc, <<"i","n","f","o","r","m","a","t","o","r","i","s","c","h","e">>)
        /\ is_extraordinary_publication(doc) <=>
              \/ doc.isExtraordinaryPublication
              \/ KeywordInTitle(doc, <<"a","u","s","s","e","r","o","r","d","e","n","t","l","i","c","h">>)
              \/ KeywordInTitle(doc, <<"a","u","ß","e","r","o","r","d","e","n","t","l","i","c","h">>)

\* a filename without its extension, as from_filename takes it off
WithoutExtension(name) ==
    Join(SubSeq(Split(name, "."), 1, Len(Split(name, ".")) - 1), ".")

\* the fields of a filename from the right: Field(name, 1) is the last one
Field(name, k) ==
    Split(WithoutExtension(name), "_")[Len(Split(WithoutExtension(name), "_")) + 1 - k]

\* C25: an encoded filename has no path separator, and without its extension
\* it splits on "_" into 7 fields for a record without a format code and into
\* 8 for one with a format code; counted from the right these are the id, the
\* flags, the publication date, the valid-to date, the valid-from date and the
\* version (or NV) as they were written.
C25_FieldsOfFileName ==
    (cpc = "encoded" /\ file_name \notin Errors) =>
        /\ "/" \notin Range(file_name)
        /\ Len(Split(WithoutExtension(file_name), "_")) =
              IF edifact_format(doc) = None THEN 7 ELSE 8
        /\ Field(file_name, 1) = IntToStr(doc.fileId)
        /\ Field(file_name, 2) = flags(doc)
        /\ Field(file_name, 3) = strftime(EncodedPublicationDate(doc))
        /\ Field(file_name, 4) = strftime(gueltig_bis(doc))
        /\ Field(file_name, 5) = strftime(gueltig_ab(doc))
        /\ Field(file_name, 6) =
              IF document_version(doc) = None THEN <<"N","V">>
              ELSE document_version(doc)
        /\ edifact_format(doc) # None => Field(file_name, 7) = edifact_format(doc)

\* C25's case: the filename of a record with a format code whose title has a
\* separator in it
C25_Witness ==
    /\ cpc = "encoded"
    /\ file_name \notin Errors
    /\ edifact_format(doc) # None
    /\ "_" \in Range(doc.title)

\* the fileIds of the catalog are pairwise distinct
DistinctFileIds(documents) ==
    \A i, j \in 1..Len(documents) :
        i # j => documents[i].fileId # documents[j].fileId

\* the download of a task is in flight: between the call of
\* download_document_per_fv and the end of its lines 125-137
InFlight(task) == task.st \in {"get", "read"}

\* C26: in a run over a catalog of pairwise distinct fileIds, two downloads in
\* flight at the same time have different target paths and different temporary
\* paths, and a task downloads its format versions one after the other, each
\* into a directory of its own.
C26_ExclusivePaths ==
    DistinctFileIds(all_metadata) =>
        /\ \A t, u \in 1..Len(download_tasks) :
              (t # u /\ InFlight(download_tasks[t]) /\ InFlight(download_tasks[u])) =>
                  {FilePath(download_tasks[t]), TmpFilePath(download_tasks[t])}
                      \cap {FilePath(download_tasks[u]), TmpFilePath(download_tasks[u])} = {}
        /\ \A t \in 1..Len(download_tasks) :
              InFlight(download_tasks[t]) =>
                  /\ \A p \in Range(download_tasks[t].file_paths) :
                        p.dir # FilePath(download_tasks[t]).dir
                  /\ \A i, j \in 1..Len(download_tasks[t].format_versions) :
                        i # j => download_tasks[t].format_versions[i]
                                    # download_tasks[t].format_versions[j]

\* C26's case: two downloads write into the same directory at the same time
C26_Witness ==
    /\ DistinctFileIds(all_metadata)
    /\ \E t, u \in 1..Len(download_tasks) :
          /\ t # u
          /\ download_tasks[t].st = "read" /\ download_tasks[u].st = "read"
          /\ FilePath(download_tasks[t]).dir = FilePath(download_tasks[u]).dir

\* C27: the request of _download_and_save_pdf is made at most five times; when
\* each of them ended in a timeout or a disconnect the function ends by raising
\* that error, and it goes on to the response only when it has received one.
C27_BoundedRetriesReraise ==
    /\ Len(retry.errors) <= GetTries
    /\ (Len(retry.errors) = GetTries /\ retry.pc # "sleep") =>
          /\ retry.pc = "raised"
          /\ retry.exc = Last(retry.errors)
    /\ retry.response = "unbound" =>
          \/ retry.pc \in {"get", "sleep"}
          \/ retry.pc = "raised" /\ retry.exc \in {TimeoutError, ServerDisconnectedError}

\* the files of the mirror directory that are no HTML files and are not in
\* online_files
OfflineFiles ==
    {f \in removal.files0 :
        Suffix(f.name) # <<".","h","t","m","l">> /\ f \notin removal.online_files}

\* C28: remove_no_longer_online_files removes the files of the mirror directory
\* that are no HTML files and are not in online_files, and returns that set;
\* the files of online_files stay, and it removes no path at which no file is.
C28_RemovesExactlyOffline ==
    removal.pc # "called" =>
        /\ removal.pc = "returned"
        /\ removal.files0 \ removal.files = OfflineFiles
        /\ removal.returned = OfflineFiles
        /\ \A f \in removal.online_files \cap removal.files0 : f \in removal.files

\* C29: for every file name and every current date the legacy
\* get_edifact_format_version_range_from_filename returns a list of format
\* versions that is not empty, ascending and contiguous: also when the end was
\* clamped to the next format version, when the valid-to date lies before the
\* publication date, and when the current format version is the last one.
C29_NonEmptyRange ==
    fv_range.pc # "called" =>
        /\ fv_range.pc = "returned"
        /\ Len(fv_range.format_version_range) >= 1
        /\ Contiguous(fv_range.format_version_range)

\* the files under the root that this call of mirror() has written
WrittenByThisRun == {f \in disk : content[f].written = run.n}

\* C30: _remove_old_files unlinks no file that the downloads of the same call
\* of mirror() have written: what the Download phase has left under the root
\* is still there after the Evict phase.
C30_KeepsWhatItWrote ==
    [][evict' = "ran" => \A f \in WrittenByThisRun : f \notin evicted']_vars

=============================================================================
